---- MODULE Spec2Model ----
(***************************************************************************)
(* Decision logic of the docai document-understanding components:          *)
(*   - LanguageDetector            (src/src/ocr/language_detector.py)      *)
(*   - VisualToTextGenerator       (src/src/nlg/visual_to_text.py)         *)
(*   - MultilingualOCR             (src/src/ocr/multilingual_ocr.py)       *)
(*                                                                         *)
(* Texts are sequences of Unicode code points.  A float confidence c is    *)
(* the integer c * ONE; ONE is chosen so that every ratio, weighted score  *)
(* and mean the code computes within the bounds below is an exact integer  *)
(* (floating-point rounding is not modelled).                              *)
(***************************************************************************)
EXTENDS Integers, Sequences, FiniteSets, TLC

\* ------------------------------------------------------------------ bounds
MaxLen == 2          \* longest text handed to detect_language
MaxBatch == 2        \* longest list handed to batch_detect and to batch_extract
MaxPreds == 2        \* longest prediction / ground-truth list

\* ------------------------------------------------------- representation
ONE == 2700000
Pct(n) == (n * ONE) \div 100

\* The characters texts are drawn from: 'T', ' ', '1', Devanagari RA,
\* Arabic MEEM, Arabic AIN.
Alphabet == {84, 32, 49, 2352, 1605, 1593}

RECURSIVE SeqsUpTo(_, _)
SeqsUpTo(S, n) ==
    IF n = 0 THEN {<<>>}
    ELSE LET shorter == SeqsUpTo(S, n - 1)
         IN  shorter \cup {Append(s, c) : s \in {t \in shorter : Len(t) = n - 1}, c \in S}

\* Every text of up to MaxLen characters, and two longer ones: "T111", a
\* quarter of which is Latin, and "To  ", which holds an English common word.
Texts == SeqsUpTo(Alphabet, MaxLen) \cup {<<84, 49, 49, 49>>, <<84, 111, 32, 32>>}

RECURSIVE SumSeq(_)
SumSeq(s) == IF s = <<>> THEN 0 ELSE Head(s) + SumSeq(Tail(s))

Abs(x) == IF x < 0 THEN -x ELSE x

\* Op applied to the value of v, with v evaluated once (a local variable).
With(v, Op(_)) == CHOOSE r \in {Op(s) : s \in {v}} : TRUE

\* str.lower() on one code point: only A-Z have a lowercase form here.
LowerChar(c) == IF c \in 65..90 THEN c + 32 ELSE c
Lower(text) == [i \in 1..Len(text) |-> LowerChar(text[i])]

\* str.strip() removes leading and trailing whitespace.
IsSpace(c) == c \in {9, 10, 11, 12, 13, 32}
RECURSIVE LStrip(_)
LStrip(text) ==
    IF text # <<>> /\ IsSpace(Head(text)) THEN LStrip(Tail(text)) ELSE text
RECURSIVE RStrip(_)
RStrip(text) ==
    IF text # <<>> /\ IsSpace(text[Len(text)])
    THEN RStrip(SubSeq(text, 1, Len(text) - 1)) ELSE text
Strip(text) == RStrip(LStrip(text))

\* "word in text": substring test.
IsSubstring(w, t) ==
    \E i \in 0..(Len(t) - Len(w)) : SubSeq(t, i + 1, i + Len(w)) = w

\* ------------------------------------------------- LanguageDetector tables
\* self.supported_languages, in dict insertion order.
LangOrder == <<"en", "hi", "ur", "ar", "ne", "fa">>
SupportedCodes == {LangOrder[i] : i \in 1..Len(LangOrder)}
supported_languages ==
    [l \in SupportedCodes |->
        CASE l = "en" -> "English" [] l = "hi" -> "Hindi" [] l = "ur" -> "Urdu"
          [] l = "ar" -> "Arabic" [] l = "ne" -> "Nepalese" [] l = "fa" -> "Persian"]
LangIndex(l) == CHOOSE i \in 1..Len(LangOrder) : LangOrder[i] = l

\* self.language_patterns: the code points each character class matches.
language_patterns(l, c) ==
    CASE l = "en" -> c \in (65..90) \cup (97..122)
      [] l \in {"hi", "ne"} -> c \in 2304..2431
      [] l \in {"ur", "ar", "fa"} -> c \in 1536..1791

\* self.language_features[l]['common_words']
common_words(l) ==
    CASE l = "en" -> <<<<116,104,101>>, <<97,110,100>>, <<111,114>>, <<105,110>>,
                       <<111,110>>, <<97,116>>, <<116,111>>, <<102,111,114>>,
                       <<111,102>>, <<119,105,116,104>>>>
      [] l = "hi" -> <<<<2325,2366>>, <<2325,2375>>, <<2325,2368>>, <<2361,2376>>,
                       <<2350,2375,2306>>, <<2324,2352>>, <<2351,2366>>, <<2346,2352>>,
                       <<2360,2375>>, <<2340,2325>>>>
      [] l = "ur" -> <<<<1575,1608,1585>>, <<1705,1740>>, <<1705,1746>>, <<1729,1746>>,
                       <<1605,1740,1722>>, <<1662,1585>>, <<1587,1746>>, <<1578,1705>>,
                       <<1740,1575>>, <<1604,1740,1746>>>>
      [] l = "ar" -> <<<<1601,1610>>, <<1605,1606>>, <<1573,1604,1609>>, <<1593,1604,1609>>,
                       <<1593,1606>>, <<1605,1593>>, <<1607,1584,1575>>, <<1607,1584,1607>>,
                       <<1575,1604,1578,1610>>, <<1575,1604,1584,1610>>>>
      [] l = "ne" -> <<<<2325,2379>>, <<2325,2366>>, <<2325,2368>>, <<2350,2366>>,
                       <<2352>>, <<2346,2344,2367>>, <<2340,2352>>, <<2309,2341,2357,2366>>,
                       <<2351,2379>>, <<2340,2381,2351,2379>>>>
      [] l = "fa" -> <<<<1583,1585>>, <<1575,1586>>, <<1576,1607>>, <<1576,1575>>,
                       <<1705,1607>>, <<1575,1740,1606>>, <<1570,1606>>,
                       <<1576,1585,1575,1740>>, <<1578,1575>>, <<1740,1575>>>>

\* self.language_features[l]['character_freq'] as <<code point, percent>>
character_freq(l) ==
    CASE l = "en" -> <<<<101, 12>>, <<116, 9>>, <<97, 8>>, <<111, 8>>, <<105, 7>>>>
      [] l = "hi" -> <<<<2366, 15>>, <<2375, 12>>, <<2368, 10>>, <<2325, 8>>, <<2350, 7>>>>
      [] l = "ur" -> <<<<1575, 12>>, <<1740, 10>>, <<1585, 8>>, <<1705, 7>>, <<1605, 6>>>>
      [] l = "ar" -> <<<<1575, 15>>, <<1604, 12>>, <<1610, 10>>, <<1606, 8>>, <<1585, 7>>>>
      [] l = "ne" -> <<<<2366, 14>>, <<2375, 11>>, <<2368, 9>>, <<2325, 8>>, <<2350, 7>>>>
      [] l = "fa" -> <<<<1575, 13>>, <<1740, 11>>, <<1585, 9>>, <<1606, 8>>, <<1583, 7>>>>

\* --------------------------------------------------------------- results
LanguageDetectionResult(name, conf, alts, code, rel) ==
    [detected_language |-> name, confidence |-> conf, alternative_languages |-> alts,
     language_code |-> code, is_reliable |-> rel]

UnknownResult == LanguageDetectionResult("Unknown", 0, <<>>, "unknown", FALSE)

Returned(v) == [kind |-> "return", val |-> v]
Raised(e) == [kind |-> "raise", val |-> e]

\* ------------------------------------------------------ scoring helpers
\* max(scores, key=scores.get): the first key, in dict order, with the
\* largest score.
BestLang(scores) ==
    LangOrder[CHOOSE i \in 1..Len(LangOrder) :
                 /\ \A j \in 1..Len(LangOrder) : scores[LangOrder[j]] <= scores[LangOrder[i]]
                 /\ \A j \in 1..(i - 1) : scores[LangOrder[j]] < scores[LangOrder[i]]]

\* sorted(scores.items(), key=lambda x: x[1], reverse=True): descending and
\* stable, so equal scores keep dict order.
ScoreRank(scores, l) ==
    1 + Cardinality({m \in SupportedCodes : scores[m] > scores[l]})
      + Cardinality({m \in SupportedCodes :
                        scores[m] = scores[l] /\ LangIndex(m) < LangIndex(l)})
SortedScores(scores) ==
    [i \in 1..Len(LangOrder) |-> CHOOSE l \in SupportedCodes : ScoreRank(scores, l) = i]

\* The alternatives loop shared by the pattern and feature strategies:
\* entries [1:4] of the sorted list whose score exceeds 0.1.
ScoreAlternatives(scores) ==
    With(SelectSeq(SubSeq(SortedScores(scores), 2, 4), LAMBDA l : scores[l] > Pct(10)),
         LAMBDA kept :
            [i \in 1..Len(kept) |-> <<supported_languages[kept[i]], scores[kept[i]]>>])

\* A variant that measures coverage over the characters that are not spaces.
PatternScoresIgnoringSpaces(text) ==
    [l \in SupportedCodes |->
        IF Cardinality({i \in 1..Len(text) : text[i] # 32}) > 0
        THEN (Cardinality({i \in 1..Len(text) : language_patterns(l, text[i])}) * ONE)
                 \div Cardinality({i \in 1..Len(text) : text[i] # 32})
        ELSE 0]

\* _detect_with_patterns: the score of each language
PatternScores(text) ==
    [l \in SupportedCodes |->
        IF Len(text) > 0
        THEN (Cardinality({i \in 1..Len(text) : language_patterns(l, text[i])}) * ONE)
                 \div Len(text)
        ELSE 0]

DetectWithPatterns(text) ==
    With(PatternScores(text), LAMBDA scores :
      With(BestLang(scores), LAMBDA best_lang :
        LET best_score == scores[best_lang]
        IN  LanguageDetectionResult(supported_languages[best_lang], best_score,
                                    ScoreAlternatives(scores), best_lang,
                                    best_score > Pct(30))))

\* _detect_with_features
\* sum(1 for word in common_words if word in text_lower)
WordMatches(l, text_lower) ==
    Cardinality({i \in 1..Len(common_words(l)) : IsSubstring(common_words(l)[i], text_lower)})

\* Counter(text.lower()).get(char, 0)
CharCount(c, text_lower) == Cardinality({i \in 1..Len(text_lower) : text_lower[i] = c})

\* the sum of 1 - abs(expected_freq - actual_freq) over character_freq
CharScoreSum(l, text_lower) ==
    SumSeq([j \in 1..Len(character_freq(l)) |->
              ONE - Abs(Pct(character_freq(l)[j][2])
                        - (CharCount(character_freq(l)[j][1], text_lower) * ONE)
                              \div Len(text_lower))])

FeatureScores(text) ==
    With(Lower(text), LAMBDA text_lower :
      [l \in SupportedCodes |->
        LET word_score == (WordMatches(l, text_lower) * ONE) \div Len(common_words(l))
            char_score == IF Len(text) > 0
                          THEN CharScoreSum(l, text_lower) \div Len(character_freq(l))
                          ELSE 0
        IN  (word_score * 6) \div 10 + (char_score * 4) \div 10])

DetectWithFeatures(text) ==
    With(FeatureScores(text), LAMBDA scores :
      With(BestLang(scores), LAMBDA best_lang :
        LET best_score == scores[best_lang]
        IN  LanguageDetectionResult(supported_languages[best_lang], best_score,
                                    ScoreAlternatives(scores), best_lang,
                                    best_score > Pct(40))))

\* ------------------------------------------- external classifier outcomes
\* What langid.classify(text) can do: raise, or return (lang_code, confidence).
\* langid reports either a normalised probability in [0,1] or an unnormalised
\* log-probability (a negative number), depending on its norm_probs setting.
\* "fr" stands for a code outside the six, "URD" for one that only the
\* lower-cased mapping table of _find_closest_language recognises.
NotCalled == [kind |-> "not_called"]
LangidOk(l, c) == [kind |-> "ok", lang |-> l, conf |-> c]
LangidOutcomes ==
    { [kind |-> "raise"],
      LangidOk("en", -5 * ONE), LangidOk("en", Pct(75)), LangidOk("ur", Pct(85)),
      LangidOk("ur", ONE),
      LangidOk("fr", Pct(85)), LangidOk("URD", Pct(75)), LangidOk("URD", Pct(85)) }

\* What langdetect can do: detect_langs(text) raises or returns a list of
\* <<lang, prob>> in descending probability; detect(text), reached only on
\* the fallback branch, returns a code or raises LangDetectException.
\* langdetect is randomised, so detect may disagree with detect_langs.
LangdetectOutcomes ==
    { [kind |-> "raise", langs |-> <<>>, detect |-> "raise"],
      [kind |-> "ok", langs |-> <<>>, detect |-> "unknown"],
      [kind |-> "ok", langs |-> <<<<"en", Pct(99)>>>>, detect |-> "en"],
      [kind |-> "ok", langs |-> <<<<"ur", Pct(57)>>, <<"fa", Pct(42)>>>>, detect |-> "ur"],
      [kind |-> "ok", langs |-> <<<<"ar", Pct(65)>>, <<"fa", Pct(20)>>, <<"ur", Pct(14)>>>>,
       detect |-> "ar"],
      [kind |-> "ok", langs |-> <<<<"ar", ONE>>>>, detect |-> "ar"],
      [kind |-> "ok", langs |-> <<<<"fr", Pct(70)>>, <<"ar", Pct(30)>>>>, detect |-> "fr"],
      [kind |-> "ok", langs |-> <<<<"fr", Pct(60)>>, <<"it", Pct(40)>>>>, detect |-> "en"],
      [kind |-> "ok", langs |-> <<<<"fr", Pct(90)>>>>, detect |-> "raise"] }

\* str.lower() on a language code.
LowerCode(code) == IF code = "URD" THEN "urd" ELSE code

\* _find_closest_language
lang_mapping ==
    [k \in {"en", "eng", "english", "hi", "hin", "hindi", "ur", "urd", "urdu",
            "ar", "ara", "arabic", "ne", "nep", "nepali", "fa", "fas", "persian", "farsi"} |->
        CASE k \in {"en", "eng", "english"} -> "en"
          [] k \in {"hi", "hin", "hindi"} -> "hi"
          [] k \in {"ur", "urd", "urdu"} -> "ur"
          [] k \in {"ar", "ara", "arabic"} -> "ar"
          [] k \in {"ne", "nep", "nepali"} -> "ne"
          [] k \in {"fa", "fas", "persian", "farsi"} -> "fa"]

\* A variant that passes an unmapped code through instead of defaulting to
\* English.
FindClosestLanguageUnmapped(detected_lang, confidence) ==
    LET low == LowerCode(detected_lang)
        mapped_lang == IF low \in DOMAIN lang_mapping THEN lang_mapping[low] ELSE low
    IN  LanguageDetectionResult(IF mapped_lang \in SupportedCodes
                                THEN supported_languages[mapped_lang] ELSE mapped_lang,
                                (confidence * 8) \div 10, <<>>, mapped_lang,
                                confidence > Pct(80))

\* _find_closest_language
FindClosestLanguage(detected_lang, confidence) ==
    LET low == LowerCode(detected_lang)
        mapped_lang == IF low \in DOMAIN lang_mapping THEN lang_mapping[low] ELSE low
    IN  IF mapped_lang \in SupportedCodes
        THEN LanguageDetectionResult(supported_languages[mapped_lang],
                                     (confidence * 8) \div 10, <<>>, mapped_lang,
                                     confidence > Pct(80))
        ELSE LanguageDetectionResult("English", Pct(50), <<>>, "en", FALSE)

\* _detect_with_langid
DetectWithLangid(text, lid) ==
    IF lid.kind = "ok"
    THEN IF lid.lang \in SupportedCodes
         THEN LanguageDetectionResult(supported_languages[lid.lang], lid.conf, <<>>,
                                      lid.lang, lid.conf > Pct(70))
         ELSE FindClosestLanguage(lid.lang, lid.conf)
    ELSE DetectWithPatterns(text)

\* _detect_with_langdetect: the loop over detect_langs' list keeps the
\* supported entry with the strictly largest probability, the first on ties.
LangdetectBest(langs) ==
    LET sup == {i \in 1..Len(langs) : langs[i][1] \in SupportedCodes /\ langs[i][2] > 0}
    IN  IF sup = {} THEN 0
        ELSE CHOOSE i \in sup :
                /\ \A j \in sup : langs[j][2] <= langs[i][2]
                /\ \A j \in sup : j < i => langs[j][2] < langs[i][2]

DetectWithLangdetect(text, ld) ==
    IF ld.kind # "ok" THEN DetectWithPatterns(text)
    ELSE With(LangdetectBest(ld.langs), LAMBDA best :
             IF ld.langs # <<>> /\ best # 0
             THEN LET best_match == ld.langs[best][1]
                      best_confidence == ld.langs[best][2]
                      others == SelectSeq(ld.langs,
                                    LAMBDA e : e[1] # best_match /\ e[1] \in SupportedCodes)
                      alternatives == [i \in 1..Len(others) |->
                                          <<supported_languages[others[i][1]], others[i][2]>>]
                  IN  LanguageDetectionResult(supported_languages[best_match],
                          best_confidence,
                          SubSeq(alternatives, 1, IF Len(alternatives) < 3
                                                  THEN Len(alternatives) ELSE 3),
                          best_match, best_confidence > Pct(60))
             ELSE IF ld.detect \in SupportedCodes
                  THEN LanguageDetectionResult(supported_languages[ld.detect], Pct(80),
                                               <<>>, ld.detect, TRUE)
                  ELSE DetectWithPatterns(text))

\* ------------------------------------------------------ ensemble voting
\* Counter / dict keys in insertion order: the codes of `results` in order
\* of first appearance.
VoteKeys(results) ==
    LET firsts == SelectSeq([i \in 1..Len(results) |-> i],
                      LAMBDA i : \A j \in 1..(i - 1) :
                                    results[j].language_code # results[i].language_code)
    IN  [k \in 1..Len(firsts) |-> results[firsts[k]].language_code]

language_votes(results, code) ==
    Cardinality({i \in 1..Len(results) : results[i].language_code = code})

confidence_sum(results, code) ==
    SumSeq([i \in 1..Len(results) |->
              IF results[i].language_code = code THEN results[i].confidence ELSE 0])

\* Counter.most_common(): keys by descending count; the sort is stable, so
\* equal counts keep insertion order.  most_common(1) is its first entry.
\* A variant that leaves the codes in first-vote order, not ordered by count.
MostCommonInsertionOrder(results) == VoteKeys(results)

\* language_votes.most_common(): by descending count, ties in first-vote order
MostCommon(results) ==
    With(VoteKeys(results), LAMBDA keys :
      With([k \in 1..Len(keys) |-> language_votes(results, keys[k])], LAMBDA count :
        LET rank(k) == 1 + Cardinality({m \in 1..Len(keys) : count[m] > count[k]})
                         + Cardinality({m \in 1..(k - 1) : count[m] = count[k]})
        IN  [i \in 1..Len(keys) |-> keys[CHOOSE k \in 1..Len(keys) : rank(k) = i]]))

LanguageName(code) ==
    IF code \in SupportedCodes THEN supported_languages[code] ELSE code

Methods == <<"langid", "langdetect", "pattern", "feature">>

RECURSIVE DetectLanguage(_, _, _, _)

\* A variant of the methods loop that keeps every result, reliable or not.
EnsembleResultsCountingAll(text, lid, ld) ==
    [i \in 1..Len(Methods) |-> DetectLanguage(text, Methods[i], lid, ld).val]

\* A variant of the alternatives loop that reports each code's total, not
\* its mean.
EnsembleAlternativesTotals(results, order) ==
    With([i \in 1..(Len(order) - 1) |->
             <<LanguageName(order[i + 1]), confidence_sum(results, order[i + 1])>>],
         LAMBDA alternatives :
            SubSeq(alternatives, 1, IF Len(alternatives) < 3 THEN Len(alternatives) ELSE 3))

\* The `results` list of _ensemble_detection: the reliable results of the
\* four methods, in method order; a method that raises is skipped.
EnsembleResults(text, lid, ld) ==
    With([i \in 1..Len(Methods) |-> DetectLanguage(text, Methods[i], lid, ld)],
         LAMBDA outcome :
            With(SelectSeq([i \in 1..Len(Methods) |-> i],
                     LAMBDA i : outcome[i].kind = "return" /\ outcome[i].val.is_reliable),
                 LAMBDA kept : [k \in 1..Len(kept) |-> outcome[kept[k]].val]))

\* The alternatives loop over language_votes.most_common(), cut to three.
EnsembleAlternatives(results, order) ==
    With([i \in 1..(Len(order) - 1) |->
             <<LanguageName(order[i + 1]),
               confidence_sum(results, order[i + 1])
                   \div language_votes(results, order[i + 1])>>],
         LAMBDA alternatives :
            SubSeq(alternatives, 1, IF Len(alternatives) < 3 THEN Len(alternatives) ELSE 3))

\* A variant whose reliability threshold is langid's 0.7 instead of 0.6.
EnsembleReduceLangidThreshold(text, results) ==
    IF results = <<>>
    THEN DetectWithPatterns(text)
    ELSE With(MostCommon(results), LAMBDA order :
           With(confidence_sum(results, order[1]) \div language_votes(results, order[1]),
                LAMBDA confidence :
                   LanguageDetectionResult(LanguageName(order[1]), confidence,
                                           EnsembleAlternatives(results, order), order[1],
                                           confidence > Pct(70))))

\* A variant that answers Unknown, not the pattern result, when nothing votes.
EnsembleReduceUnknownFallback(text, results) ==
    IF results = <<>>
    THEN UnknownResult
    ELSE With(MostCommon(results), LAMBDA order :
           With(confidence_sum(results, order[1]) \div language_votes(results, order[1]),
                LAMBDA confidence :
                   LanguageDetectionResult(LanguageName(order[1]), confidence,
                                           EnsembleAlternatives(results, order), order[1],
                                           confidence > Pct(60))))

\* _ensemble_detection, from the `results` list on
EnsembleReduce(text, results) ==
    IF results = <<>>
    THEN DetectWithPatterns(text)
    ELSE With(MostCommon(results), LAMBDA order :
           With(confidence_sum(results, order[1]) \div language_votes(results, order[1]),
                LAMBDA confidence :
                   LanguageDetectionResult(LanguageName(order[1]), confidence,
                                           EnsembleAlternatives(results, order), order[1],
                                           confidence > Pct(60))))

\* _ensemble_detection
EnsembleDetection(text, lid, ld) ==
    With(EnsembleResults(text, lid, ld), LAMBDA results : EnsembleReduce(text, results))

\* A variant of the blank test that does not strip the text.
IsBlankNoStrip(text) == text = <<>>

\* detect_language
IsBlank(text) == text = <<>> \/ Len(Strip(text)) = 0

DetectLanguage(text, method, lid, ld) ==
    IF IsBlank(text) THEN Returned(UnknownResult)
    ELSE CASE method = "ensemble" -> Returned(EnsembleDetection(text, lid, ld))
           [] method = "langid" -> Returned(DetectWithLangid(text, lid))
           [] method = "langdetect" -> Returned(DetectWithLangdetect(text, ld))
           [] method = "pattern" -> Returned(DetectWithPatterns(text))
           [] method = "feature" -> Returned(DetectWithFeatures(text))
           [] OTHER -> Raised("ValueError")

\* The strategy functions one detect_language call runs, in order: the
\* method's own, and _detect_with_patterns where the method falls back to it.
MethodCalls(method, lid, ld) ==
    CASE method = "langid" ->
            <<"langid">> \o (IF lid.kind = "ok" THEN <<>> ELSE <<"pattern">>)
      [] method = "langdetect" ->
            <<"langdetect">>
              \o (IF ld.kind = "ok"
                     /\ (LangdetectBest(ld.langs) # 0 \/ ld.detect \in SupportedCodes)
                  THEN <<>> ELSE <<"pattern">>)
      [] method = "pattern" -> <<"pattern">>
      [] method = "feature" -> <<"feature">>
      [] OTHER -> <<>>

StrategyCalls(text, method, lid, ld, results) ==
    IF IsBlank(text) THEN <<>>
    ELSE IF method = "ensemble"
         THEN MethodCalls("langid", lid, ld) \o MethodCalls("langdetect", lid, ld)
                \o MethodCalls("pattern", lid, ld) \o MethodCalls("feature", lid, ld)
                \o (IF results = <<>> THEN <<"pattern">> ELSE <<>>)
         ELSE MethodCalls(method, lid, ld)

\* ------------------------------------------------------ calculate_metrics
MetricUnit == ONE \div 360
NoMatrix == "not_computed"

\* The confusion matrix after the zip loop: confusion_matrix[gt][pred].
ConfusionMatrix(predictions, ground_truth) ==
    [g \in SupportedCodes |-> [p \in SupportedCodes |->
        Cardinality({i \in 1..(IF Len(predictions) < Len(ground_truth)
                               THEN Len(predictions) ELSE Len(ground_truth)) :
                        predictions[i] = p /\ ground_truth[i] = g})]]

\* A variant that averages over the languages whose precision (recall) is
\* defined, skipping the others.
MetricsOfSkippingUndefined(cm, total_predictions) ==
    LET tp(l) == cm[l][l]
        fp(l) == SumSeq([i \in 1..Len(LangOrder) |->
                           IF LangOrder[i] # l THEN cm[LangOrder[i]][l] ELSE 0])
        fn(l) == SumSeq([i \in 1..Len(LangOrder) |->
                           IF LangOrder[i] # l THEN cm[l][LangOrder[i]] ELSE 0])
        total_correct == SumSeq([i \in 1..Len(LangOrder) |-> tp(LangOrder[i])])
        precision_sum == SumSeq([i \in 1..Len(LangOrder) |->
                           LET l == LangOrder[i]
                           IN  IF tp(l) + fp(l) > 0
                               THEN (tp(l) * ONE) \div (tp(l) + fp(l)) ELSE 0])
        recall_sum == SumSeq([i \in 1..Len(LangOrder) |->
                           LET l == LangOrder[i]
                           IN  IF tp(l) + fn(l) > 0
                               THEN (tp(l) * ONE) \div (tp(l) + fn(l)) ELSE 0])
        predicted == Cardinality({l \in SupportedCodes : tp(l) + fp(l) > 0})
        actual == Cardinality({l \in SupportedCodes : tp(l) + fn(l) > 0})
        accuracy == IF total_predictions > 0
                    THEN (total_correct * ONE) \div total_predictions ELSE 0
        avg_precision == IF predicted > 0 THEN precision_sum \div predicted ELSE 0
        avg_recall == IF actual > 0 THEN recall_sum \div actual ELSE 0
        f1_score == IF avg_precision + avg_recall > 0
                    THEN (2 * (avg_precision \div MetricUnit) * (avg_recall \div MetricUnit)
                            * MetricUnit)
                           \div ((avg_precision + avg_recall) \div MetricUnit)
                    ELSE 0
    IN  [accuracy |-> accuracy, precision |-> avg_precision, recall |-> avg_recall,
         f1_score |-> f1_score, confusion_matrix |-> cm]

\* calculate_metrics: the scores, from the confusion matrix
MetricsOf(cm, total_predictions) ==
    LET tp(l) == cm[l][l]
        fp(l) == SumSeq([i \in 1..Len(LangOrder) |->
                           IF LangOrder[i] # l THEN cm[LangOrder[i]][l] ELSE 0])
        fn(l) == SumSeq([i \in 1..Len(LangOrder) |->
                           IF LangOrder[i] # l THEN cm[l][LangOrder[i]] ELSE 0])
        total_correct == SumSeq([i \in 1..Len(LangOrder) |-> tp(LangOrder[i])])
        precision_sum == SumSeq([i \in 1..Len(LangOrder) |->
                           LET l == LangOrder[i]
                           IN  IF tp(l) + fp(l) > 0
                               THEN (tp(l) * ONE) \div (tp(l) + fp(l)) ELSE 0])
        recall_sum == SumSeq([i \in 1..Len(LangOrder) |->
                           LET l == LangOrder[i]
                           IN  IF tp(l) + fn(l) > 0
                               THEN (tp(l) * ONE) \div (tp(l) + fn(l)) ELSE 0])
        accuracy == IF total_predictions > 0
                    THEN (total_correct * ONE) \div total_predictions ELSE 0
        avg_precision == precision_sum \div Len(LangOrder)
        avg_recall == recall_sum \div Len(LangOrder)
        \* 2 * p * r / (p + r), rounded down to a multiple of 1 / ONE
        f1_score == IF avg_precision + avg_recall > 0
                    THEN (2 * (avg_precision \div MetricUnit) * (avg_recall \div MetricUnit)
                            * MetricUnit)
                           \div ((avg_precision + avg_recall) \div MetricUnit)
                    ELSE 0
    IN  [accuracy |-> accuracy, precision |-> avg_precision, recall |-> avg_recall,
         f1_score |-> f1_score, confusion_matrix |-> cm]

\* A variant without the length check: zip stops at the shorter sequence.
CalculateMetricsNoLengthCheck(predictions, ground_truth) ==
    Returned(MetricsOf(ConfusionMatrix(predictions, ground_truth), Len(predictions)))

\* calculate_metrics
CalculateMetrics(predictions, ground_truth) ==
    IF Len(predictions) # Len(ground_truth)
    THEN Raised("ValueError")
    ELSE Returned(MetricsOf(ConfusionMatrix(predictions, ground_truth), Len(predictions)))

\* ============================================== images and bounding boxes
\* An image is its shape: rows h, columns w and channels ch (1 for a 2-D
\* grayscale array, 3 for BGR).  A bounding box is <<x, y, w, h>> in whole,
\* non-negative pixels, or NoBbox (None).
NoBbox == <<>>
Min(a, b) == IF a < b THEN a ELSE b

\* image[y:y+h, x:x+w]: numpy clips a slice to the array.
Crop(image, bbox) ==
    [h |-> Min(image.h, bbox[2] + bbox[4]) - Min(image.h, bbox[2]),
     w |-> Min(image.w, bbox[1] + bbox[3]) - Min(image.w, bbox[1]),
     ch |-> image.ch]

IsEmptyImage(image) == image.h = 0 \/ image.w = 0

\* ================================================= VisualToTextGenerator
NLGResult(generated_text, confidence, element_type, bbox, model, meth) ==
    [generated_text |-> generated_text, confidence |-> confidence,
     element_type |-> element_type, bbox |-> bbox,
     metadata |-> [model |-> model, method |-> meth]]

\* What the vision-language model does when it is run: raise, or return a
\* caption.  A caption is what the _enhance_* functions look at: whether it
\* names the element type ('chart'/'graph', 'map'/'location', 'table') and
\* whether it holds one of the type's keywords.
Captions == {[names_type |-> FALSE, has_keyword |-> TRUE],
             [names_type |-> TRUE, has_keyword |-> FALSE]}
ModelOutcomes == {[kind |-> "raise"]} \cup {[kind |-> "ok", caption |-> c] : c \in Captions}

\* cv2.cvtColor raises on an empty array, so the model never gets to run on
\* an empty region.
ModelOutcomesOn(region) ==
    IF IsEmptyImage(region) THEN {[kind |-> "raise"]} ELSE ModelOutcomes

\* _enhance_chart_description, _enhance_map_description,
\* _enhance_table_description: the prefix is added when the caption does not
\* name the type, the closing sentence when it holds a keyword (none of the
\* prefixes holds one).
EnhanceDescription(caption, element_type) ==
    [caption |-> caption, type |-> element_type,
     prefixed |-> ~caption.names_type, suffixed |-> caption.has_keyword]

\* _generate_template_description
GenerateTemplateDescription(image, element_type, bbox) ==
    LET height == image.h
        width == image.w
        \* aspect_ratio > n/10 and aspect_ratio < n/10, aspect_ratio being
        \* width / height, or 1 when height is 0
        Above(n) == IF height > 0 THEN 10 * width > n * height ELSE 10 > n
        Below(n) == IF height > 0 THEN 10 * width < n * height ELSE 10 < n
        template ==
            CASE element_type = "chart" ->
                    IF Above(15) THEN "wide chart" ELSE IF Below(7) THEN "tall chart"
                    ELSE "balanced chart"
              [] element_type = "map" ->
                    IF Above(12) THEN "wide map" ELSE IF Below(8) THEN "tall map"
                    ELSE "balanced map"
              [] element_type = "table" ->
                    IF Above(15) THEN "wide table" ELSE IF Below(7) THEN "tall table"
                    ELSE "balanced table"
              [] OTHER -> "generic element"
    IN  NLGResult(template, Pct(50), element_type, bbox, "template", "fallback")

\* _generate_chart_map_description
GenerateChartMapDescription(image, element_type, bbox, available, out) ==
    IF available /\ out.kind = "ok"
    THEN NLGResult(EnhanceDescription(out.caption, element_type), Pct(80), element_type,
                   bbox, "git-base-coco", "vision-language")
    ELSE GenerateTemplateDescription(image, element_type, bbox)

\* A variant that reports a failed table model as an error result instead of
\* falling back to the template.
GenerateTableDescriptionNoFallback(image, bbox, available, out) ==
    IF available
    THEN IF out.kind = "ok"
         THEN NLGResult(EnhanceDescription(out.caption, "table"), Pct(80), "table",
                        bbox, "flan-t5-base", "t2t-gen")
         ELSE NLGResult("generation failed", 0, "table", bbox, "error", "error")
    ELSE GenerateTemplateDescription(image, "table", bbox)

\* _generate_table_description
GenerateTableDescription(image, bbox, available, out) ==
    IF available /\ out.kind = "ok"
    THEN NLGResult(EnhanceDescription(out.caption, "table"), Pct(80), "table",
                   bbox, "flan-t5-base", "t2t-gen")
    ELSE GenerateTemplateDescription(image, "table", bbox)

\* generate_description
GenerateDescription(image, bbox, element_type, chart_ok, table_ok, out) ==
    LET region_image == Crop(image, bbox)
    IN  IF element_type \in {"chart", "map"}
        THEN Returned(GenerateChartMapDescription(region_image, element_type, bbox,
                                                  chart_ok, out))
        ELSE IF element_type = "table"
             THEN Returned(GenerateTableDescription(region_image, bbox, table_ok, out))
             ELSE Raised("ValueError")

\* The providers one generate_description call runs, in order.
ProviderCalls(element_type, chart_ok, table_ok, out) ==
    IF element_type \notin {"chart", "map", "table"} THEN <<>>
    ELSE LET available == IF element_type = "table" THEN table_ok ELSE chart_ok
         IN  IF ~available THEN <<"template">>
             ELSE IF out.kind = "ok" THEN <<"model">> ELSE <<"model", "template">>

\* ---------------------------------------------------- evaluate_generation
EvaluationMetrics(bleurt_score, bertscore_score, combined_score, details) ==
    [bleurt_score |-> bleurt_score, bertscore_score |-> bertscore_score,
     combined_score |-> combined_score, details |-> details]

\* The except branch of evaluate_generation
ErrorMetrics == EvaluationMetrics(0, 0, 0, [error |-> "str(e)"])

\* What a scorer does when it is run: raise, or return a score.
ScoreValues == {0, Pct(40), ONE}
ScorerOutcomes == {[kind |-> "raise"]} \cup {[kind |-> "ok", score |-> v] : v \in ScoreValues}

\* _calculate_bleu_score: nltk's sentence_bleu, or _calculate_simple_similarity
\* when importing or running it raises; SequenceMatcher's failure is not
\* caught here.
CalculateBleuScore(bleu, sim) ==
    IF bleu.kind = "ok" THEN Returned(bleu.score)
    ELSE IF sim.kind = "ok" THEN Returned(sim.score) ELSE Raised("Exception")

\* A variant that gives tables the weights 0.7 / 0.3 the wrong way round.
EvaluateGenerationSwappedWeights(generated_text, reference_text, element_type, scorer_ok, bert, bleu, sim) ==
    IF scorer_ok /\ bert.kind = "raise" THEN Returned(ErrorMetrics)
    ELSE LET bertscore_score == IF scorer_ok THEN bert.score ELSE 0
             bleurt == CalculateBleuScore(bleu, sim)
         IN  IF bleurt.kind = "raise" THEN Returned(ErrorMetrics)
             ELSE LET bleurt_score == bleurt.val
                      combined_score ==
                          IF element_type \in {"chart", "map"}
                          THEN (bleurt_score + bertscore_score) \div 2
                          ELSE (bleurt_score * 7) \div 10 + (bertscore_score * 3) \div 10
                  IN  Returned(EvaluationMetrics(bleurt_score, bertscore_score,
                          combined_score,
                          [element_type |-> element_type,
                           generated_length |-> Len(generated_text),
                           reference_length |-> Len(reference_text)]))

\* A variant without the try around the scorers: their failure is raised.
EvaluateGenerationNoTry(generated_text, reference_text, element_type, scorer_ok, bert, bleu, sim) ==
    IF scorer_ok /\ bert.kind = "raise" THEN Raised("Exception")
    ELSE LET bertscore_score == IF scorer_ok THEN bert.score ELSE 0
             bleurt == CalculateBleuScore(bleu, sim)
         IN  IF bleurt.kind = "raise" THEN Raised("Exception")
             ELSE LET bleurt_score == bleurt.val
                      combined_score ==
                          IF element_type \in {"chart", "map"}
                          THEN (bleurt_score + bertscore_score) \div 2
                          ELSE (bleurt_score * 3) \div 10 + (bertscore_score * 7) \div 10
                  IN  Returned(EvaluationMetrics(bleurt_score, bertscore_score,
                          combined_score,
                          [element_type |-> element_type,
                           generated_length |-> Len(generated_text),
                           reference_length |-> Len(reference_text)]))

\* evaluate_generation
EvaluateGeneration(generated_text, reference_text, element_type, scorer_ok, bert, bleu, sim) ==
    IF scorer_ok /\ bert.kind = "raise" THEN Returned(ErrorMetrics)
    ELSE LET bertscore_score == IF scorer_ok THEN bert.score ELSE 0
             bleurt == CalculateBleuScore(bleu, sim)
         IN  IF bleurt.kind = "raise" THEN Returned(ErrorMetrics)
             ELSE LET bleurt_score == bleurt.val
                      combined_score ==
                          IF element_type \in {"chart", "map"}
                          THEN (bleurt_score + bertscore_score) \div 2
                          ELSE (bleurt_score * 3) \div 10 + (bertscore_score * 7) \div 10
                  IN  Returned(EvaluationMetrics(bleurt_score, bertscore_score,
                          combined_score,
                          [element_type |-> element_type,
                           generated_length |-> Len(generated_text),
                           reference_length |-> Len(reference_text)]))

\* The scorers one evaluate_generation call runs, in order.
ScorerCalls(scorer_ok, bert, bleu) ==
    (IF scorer_ok THEN <<"bertscore">> ELSE <<>>)
      \o (IF scorer_ok /\ bert.kind = "raise" THEN <<>>
          ELSE <<"bleu">> \o (IF bleu.kind = "ok" THEN <<>> ELSE <<"similarity">>))

\* ============================================================ PS05Pipeline
\* process_image(image_path, stage) of src/pipeline/infer_page.py, which is
\* not among the source files: modelled from sections 4.3, 6 and 7 of the
\* specification and from the calls in tests/test_ps05_pipeline.py and demo.py.
MaxElements == 2     \* most layout elements on a page

\* An image file: whether cv2 can read it, and the classes of the regions on
\* the page, which stands for its pixels.
ImageFile(name, readable, page) == [name |-> name, readable |-> readable, page |-> page]
NoFile == ImageFile("none", FALSE, <<>>)
NoResult == [none |-> TRUE]
NoServed == [file |-> NoFile, stage |-> 0, value |-> NoResult]
ElementClasses == {"Text", "Table", "Chart"}

\* Stage 1: the layout detector, a function of the image.
LayoutElements(file) ==
    [i \in 1..Len(file.page) |->
        [id |-> i, cls |-> file.page[i], bbox |-> <<0, i, 1, 1>>, score |-> Pct(90)]]

\* Stage 2: one text line for each Text element of stage 1's list.
TextLines(elements) ==
    LET text_elements == SelectSeq(elements, LAMBDA e : e.cls = "Text")
    IN  [i \in 1..Len(text_elements) |->
            [bbox |-> text_elements[i].bbox, text |-> <<84>>, lang |-> "en",
             score |-> Pct(90)]]

\* Stage 3: one described region for each element of the class.
DescribedRegions(elements, cls) ==
    LET regions == SelectSeq(elements, LAMBDA e : e.cls = cls)
    IN  [i \in 1..Len(regions) |-> [bbox |-> regions[i].bbox, summary |-> cls]]

\* The fields stage k appends to the result.
StageOutput(k, file, result) ==
    CASE k = 1 -> [elements |-> LayoutElements(file)]
      [] k = 2 -> [text_lines |-> TextLines(result.elements)]
      [] k = 3 -> [tables |-> DescribedRegions(result.elements, "Table"),
                   figures |-> DescribedRegions(result.elements, "Figure"),
                   charts |-> DescribedRegions(result.elements, "Chart"),
                   maps |-> DescribedRegions(result.elements, "Map")]

\* A variant whose stage 2 keeps only the Text elements in the elements field.
RunStageFilteringElements(k, file, result) ==
    IF k = 2
    THEN [elements |-> SelectSeq(result.elements, LAMBDA e : e.cls = "Text")]
            @@ StageOutput(k, file, result) @@ result
    ELSE result @@ StageOutput(k, file, result)

\* One stage: the result so far, with the stage's fields appended.
RunStage(k, file, result) == result @@ StageOutput(k, file, result)

\* A variant that clamps to the nearest valid stage.
ClampStageToNearest(requested) ==
    IF requested < 1 THEN 1 ELSE IF requested > 3 THEN 3 ELSE requested

\* The stage a request is served at: an out-of-range number counts as 1.
ClampStage(requested) == IF requested \in 1..3 THEN requested ELSE 1

\* A variant that runs every stage whatever the request.
StagesToRunAll(requested) == 3

\* The number of stages a request runs: stages 1..K.
StagesToRun(requested) == ClampStage(requested)

\* A variant that lets the read failure out.
LoadImageRaising(file) ==
    IF file.readable
    THEN Returned([page |-> 1, size |-> [w |-> 600, h |-> 800],
                   preprocess |-> [deskew_angle |-> 0]])
    ELSE Raised("FileNotFoundError")

\* Reading the image: the result's page fields, or the error result.
LoadImage(file) ==
    IF file.readable
    THEN Returned([page |-> 1, size |-> [w |-> 600, h |-> 800],
                   preprocess |-> [deskew_angle |-> 0]])
    ELSE Returned([error |-> "could not load image"])

\* ======================================================= MultilingualOCR
MaxRegions == 2      \* most text regions the EasyOCR reader reports

TextRegion(bbox, text, confidence, language, language_confidence) ==
    [bbox |-> bbox, text |-> text, confidence |-> confidence, language |-> language,
     language_confidence |-> language_confidence]

OCRResult(text_regions, overall_text, detected_languages, processing_time) ==
    [text_regions |-> text_regions, overall_text |-> overall_text,
     detected_languages |-> detected_languages, processing_time |-> processing_time]

\* len(re.findall(character class, text))
CountIn(text, Matches(_)) == Cardinality({i \in 1..Len(text) : Matches(text[i])})

\* A variant that tests the Urdu count before the Arabic one.
DetectLanguageFromTextUrduFirst(text) ==
    LET arabic_chars == CountIn(text, LAMBDA c :
                            \/ c \in 1536..1791 \/ c \in 1872..1919 \/ c \in 2208..2303
                            \/ c \in 64336..65023 \/ c \in 65136..65279)
        devanagari_chars == CountIn(text, LAMBDA c : c \in 2304..2431)
        urdu_chars == CountIn(text, LAMBDA c : c \in 1536..1791)
        persian_chars == CountIn(text, LAMBDA c : c \in 1536..1791 \/ c \in 64336..65023)
    IN  IF urdu_chars > 0 THEN "ur"
        ELSE IF arabic_chars > 0
        THEN IF 10 * persian_chars > 8 * arabic_chars THEN "fa" ELSE "ar"
        ELSE IF devanagari_chars > 0 THEN "hi"
        ELSE "en"

\* _detect_language_from_text
DetectLanguageFromText(text) ==
    LET arabic_chars == CountIn(text, LAMBDA c :
                            \/ c \in 1536..1791 \/ c \in 1872..1919 \/ c \in 2208..2303
                            \/ c \in 64336..65023 \/ c \in 65136..65279)
        devanagari_chars == CountIn(text, LAMBDA c : c \in 2304..2431)
        urdu_chars == CountIn(text, LAMBDA c : c \in 1536..1791)
        persian_chars == CountIn(text, LAMBDA c : c \in 1536..1791 \/ c \in 64336..65023)
    IN  IF arabic_chars > 0
        THEN IF 10 * persian_chars > 8 * arabic_chars THEN "fa" ELSE "ar"
        ELSE IF devanagari_chars > 0 THEN "hi"
        ELSE IF urdu_chars > 0 THEN "ur"
        ELSE "en"

\* _process_easyocr_results: one (polygon, text, confidence) per region.
ProcessEasyocrResults(raw) ==
    [i \in 1..Len(raw) |->
        LET poly == raw[i][1]
            xs == {poly[k][1] : k \in 1..Len(poly)}
            ys == {poly[k][2] : k \in 1..Len(poly)}
            x == CHOOSE v \in xs : \A u \in xs : v <= u
            y == CHOOSE v \in ys : \A u \in ys : v <= u
            w == (CHOOSE v \in xs : \A u \in xs : v >= u) - x
            h == (CHOOSE v \in ys : \A u \in ys : v >= u) - y
        IN  TextRegion(<<x, y, w, h>>, Strip(raw[i][2]), raw[i][3],
                       DetectLanguageFromText(raw[i][2]), Pct(80))]

\* _extract_with_trocr
ExtractWithTrocr(image, trocr_ok, out) ==
    IF ~trocr_ok THEN <<>>
    ELSE IF out.kind = "ok"
         THEN <<TextRegion(<<0, 0, image.w, image.h>>, out.text, Pct(70), "en", Pct(60))>>
         ELSE <<>>

\* _clean_text: runs of whitespace become one space, characters outside
\* [\w\s] and the listed Arabic / Devanagari ranges are dropped, and the
\* result is stripped.
RECURSIVE CollapseSpaces(_)
CollapseSpaces(text) ==
    IF text = <<>> THEN <<>>
    ELSE IF IsSpace(Head(text))
         THEN <<32>> \o CollapseSpaces(LStrip(text))
         ELSE <<Head(text)>> \o CollapseSpaces(Tail(text))

IsKeptChar(c) ==
    \/ c \in 48..57 \/ c \in 65..90 \/ c \in 97..122 \/ c = 95
    \/ IsSpace(c)
    \/ c \in 1536..1791 \/ c \in 2304..2431 \/ c \in 1872..1919 \/ c \in 2208..2303
    \/ c \in 64336..65023 \/ c \in 65136..65279

CleanText(text) == Strip(SelectSeq(CollapseSpaces(text), IsKeptChar))

\* A variant that sorts left to right first: the key is (bbox x, bbox y).
SortByPositionLeftToRight(regions) ==
    LET before(i, j) ==
            \/ regions[i].bbox[1] < regions[j].bbox[1]
            \/ regions[i].bbox[1] = regions[j].bbox[1] /\ regions[i].bbox[2] < regions[j].bbox[2]
            \/ regions[i].bbox[1] = regions[j].bbox[1] /\ regions[i].bbox[2] = regions[j].bbox[2]
                 /\ i < j
        rank(j) == 1 + Cardinality({i \in 1..Len(regions) : before(i, j)})
    IN  [k \in 1..Len(regions) |-> regions[CHOOSE j \in 1..Len(regions) : rank(j) = k]]

\* list.sort(key=lambda x: (x.bbox[1], x.bbox[0])): ascending and stable.
SortByPosition(regions) ==
    LET before(i, j) ==
            \/ regions[i].bbox[2] < regions[j].bbox[2]
            \/ regions[i].bbox[2] = regions[j].bbox[2] /\ regions[i].bbox[1] < regions[j].bbox[1]
            \/ regions[i].bbox[2] = regions[j].bbox[2] /\ regions[i].bbox[1] = regions[j].bbox[1]
                 /\ i < j
        rank(j) == 1 + Cardinality({i \in 1..Len(regions) : before(i, j)})
    IN  [k \in 1..Len(regions) |-> regions[CHOOSE j \in 1..Len(regions) : rank(j) = k]]

\* _post_process_text_regions
PostProcessTextRegions(text_regions) ==
    With(text_regions, LAMBDA regions :
      With([i \in 1..Len(regions) |->
               With(CleanText(regions[i].text),
                    LAMBDA cleaned_text : [regions[i] EXCEPT !.text = cleaned_text])],
           LAMBDA cleaned :
              With(SelectSeq(cleaned, LAMBDA r : r.text # <<>> /\ Len(Strip(r.text)) > 0),
                   LAMBDA processed_regions : SortByPosition(processed_regions))))

\* " ".join(texts)
RECURSIVE JoinWithSpace(_)
JoinWithSpace(ts) ==
    IF ts = <<>> THEN <<>>
    ELSE IF Len(ts) = 1 THEN ts[1]
    ELSE ts[1] \o <<32>> \o JoinWithSpace(Tail(ts))

\* _preprocess_image runs cv2 on the region before any reader is tried.
\* cv2.cvtColor raises on an empty colour array; what the thresholding does
\* with an empty grayscale array depends on the OpenCV build.
PreprocessOutcomes(region) ==
    IF IsEmptyImage(region)
    THEN IF region.ch = 3 THEN {"raise"} ELSE {"raise", "ok"}
    ELSE {"ok"}

\* A variant in which a failure of the EasyOCR reader ends the chain.
ExtractTextNoFallback(image, bbox, reader_ok, trocr_ok, pre, reader_out, trocr_out) ==
    LET region == IF bbox # NoBbox THEN Crop(image, bbox) ELSE image
    IN  IF pre = "raise" THEN Raised("cv2.error")
        ELSE With(PostProcessTextRegions(
                      IF reader_ok
                      THEN IF reader_out.kind = "ok"
                           THEN ProcessEasyocrResults(reader_out.results) ELSE <<>>
                      ELSE ExtractWithTrocr(region, trocr_ok, trocr_out)),
                  LAMBDA text_regions :
                     Returned(OCRResult(
                         text_regions,
                         JoinWithSpace([i \in 1..Len(text_regions) |-> text_regions[i].text]),
                         {text_regions[i].language : i \in 1..Len(text_regions)},
                         "elapsed")))

\* extract_text, from the readers' answers on
ExtractText(image, bbox, reader_ok, trocr_ok, pre, reader_out, trocr_out) ==
    LET region == IF bbox # NoBbox THEN Crop(image, bbox) ELSE image
    IN  IF pre = "raise" THEN Raised("cv2.error")
        ELSE With(PostProcessTextRegions(
                      IF reader_ok /\ reader_out.kind = "ok"
                      THEN ProcessEasyocrResults(reader_out.results)
                      ELSE ExtractWithTrocr(region, trocr_ok, trocr_out)),
                  LAMBDA text_regions :
                     Returned(OCRResult(
                         text_regions,
                         JoinWithSpace([i \in 1..Len(text_regions) |-> text_regions[i].text]),
                         {text_regions[i].language : i \in 1..Len(text_regions)},
                         "elapsed")))

\* The readers one extract_text call runs, in order.
ReaderCalls(reader_ok, trocr_ok, pre, reader_out) ==
    IF pre = "raise" THEN <<>>
    ELSE IF reader_ok
         THEN IF reader_out.kind = "ok" THEN <<"easyocr">>
              ELSE <<"easyocr">> \o (IF trocr_ok THEN <<"trocr">> ELSE <<>>)
         ELSE IF trocr_ok THEN <<"trocr">> ELSE <<>>

\* ============================================================ detect_lines
MaxHeight == 340     \* tallest image handed to detect_lines, in pixels

\* step = max(32, h // 10)
LineStep(h) == IF h \div 10 > 32 THEN h \div 10 ELSE 32

\* A variant that gives every line the full step as its height.
LineHeightUnclipped(step, h, y) == step

\* min(step, h - y)
LineHeight(step, h, y) == Min(step, h - y)

\* The dict appended for the line at y; its text is f"Line at y={y}".
TextLine(y, w, height) ==
    [label |-> "TextLine", bbox |-> <<0, y, w, height>>, score |-> Pct(99),
     text |-> <<"Line at y=", y>>, lang |-> "en"]

\* =================================================================== state
VARIABLES
    op,               \* the operation called last
    pc,               \* "idle", the loop a call is in, or "done" when it has ended
    ret,              \* the call's outcome: a returned value or a raised error
    calls,            \* the strategies / providers / readers the call ran, in order
    \* LanguageDetector
    text, method,     \* detect_language's arguments
    lid, ld,          \* what langid / langdetect answered during the call
    results,          \* _ensemble_detection's list of reliable results
    texts,            \* batch_detect's argument
    batch_lid, batch_ld,   \* the classifiers' answers for each batch item
    batch_results,    \* batch_detect's results list
    predictions, ground_truth,   \* calculate_metrics' arguments
    confusion_matrix, \* calculate_metrics' confusion matrix, once built
    \* VisualToTextGenerator: whether __init__ loaded the models and the scorer
    chart_model, table_pipeline, bertscorer,
    \* MultilingualOCR: whether __init__ loaded the readers
    reader, trocr,
    \* generate_description's and extract_text's arguments
    image, bbox, element_type,
    \* what the model, cv2's preprocessing and the two readers did in the call
    model_out, pre_out, reader_out, trocr_out,
    \* evaluate_generation's text arguments, and what BERTScore, nltk's BLEU
    \* and difflib's ratio did in the call
    generated_text, reference_text, bert_out, bleu_out, sim_out,
    \* PS05Pipeline.process_image: the image file and stage asked for, the
    \* result dictionary being built, and what the request answered before
    \* this one returned
    image_path, stage, result, served,
    \* the decision of an earlier detect_language call, kept by its caller,
    \* and whether another call has ended since
    previous,
    \* MultilingualOCR.batch_extract: its arguments, what cv2 and the readers
    \* did for each image, and its results list
    images, bboxes, batch_out, ocr_results,
    \* detect_lines: its list `out`
    lines

detectVars == <<text, lid, ld, results>>
batchVars == <<texts, batch_lid, batch_ld, batch_results>>
metricVars == <<predictions, ground_truth, confusion_matrix>>
langVars == <<method, detectVars, batchVars, metricVars>>
objectVars == <<chart_model, table_pipeline, bertscorer, reader, trocr>>
visionVars == <<image, bbox, element_type, model_out, pre_out, reader_out, trocr_out>>
evalVars == <<generated_text, reference_text, bert_out, bleu_out, sim_out>>
pipeVars == <<image_path, stage, result, served>>
ocrBatchVars == <<images, bboxes, batch_out, ocr_results>>
vars == <<op, pc, ret, calls, langVars, objectVars, visionVars, evalVars, pipeVars,
          previous, ocrBatchVars, lines>>

NoRet == [kind |-> "none", val |-> "none"]
Absent == "absent"
NoImage == [h |-> 0, w |-> 0, ch |-> 0]
NoPrevious ==
    [text |-> <<>>, method |-> "none", lid |-> NotCalled, ld |-> NotCalled, ret |-> NoRet,
     later |-> FALSE]
\* bboxes=None
NoBboxes == [given |-> FALSE, list |-> <<>>]

DetectionMethods == {"ensemble", "langid", "langdetect", "pattern", "feature", "bogus"}
MetricCodes == {"en", "hi", "unknown"}
BatchTexts == {<<>>, <<32>>, <<84>>, <<1605, 1593>>}
BatchLangid == {[kind |-> "raise"], LangidOk("ur", Pct(85))}
BatchLangdetect ==
    {o \in LangdetectOutcomes : o.kind = "raise" \/ (o.langs # <<>> /\ o.langs[1][1] = "ar")}

\* The classifier answers a call can meet: a classifier the call never
\* reaches gives none.
LangidFor(t, m) ==
    IF ~IsBlank(t) /\ m \in {"ensemble", "langid"} THEN LangidOutcomes ELSE {NotCalled}
LangdetectFor(t, m) ==
    IF ~IsBlank(t) /\ m \in {"ensemble", "langdetect"} THEN LangdetectOutcomes ELSE {NotCalled}

IdleDetect ==
    /\ text' = <<>> /\ lid' = NotCalled /\ ld' = NotCalled /\ results' = <<>>
IdleBatch ==
    /\ texts' = <<>> /\ batch_lid' = <<>> /\ batch_ld' = <<>> /\ batch_results' = <<>>
IdleMetrics ==
    /\ predictions' = <<>> /\ ground_truth' = <<>> /\ confusion_matrix' = NoMatrix
IdleVision ==
    /\ image' = NoImage /\ bbox' = NoBbox /\ element_type' = "none"
    /\ model_out' = NotCalled /\ pre_out' = "none"
    /\ reader_out' = NotCalled /\ trocr_out' = NotCalled
IdleEval ==
    /\ generated_text' = <<>> /\ reference_text' = <<>>
    /\ bert_out' = NotCalled /\ bleu_out' = NotCalled /\ sim_out' = NotCalled
IdlePipe ==
    /\ image_path' = NoFile /\ stage' = 0 /\ result' = NoResult
IdleOcrBatch ==
    /\ images' = <<>> /\ bboxes' = NoBboxes /\ batch_out' = <<>> /\ ocr_results' = <<>>

\* No call is in progress.
NoCall ==
    /\ op = "init" /\ pc = "idle" /\ ret = NoRet /\ calls = <<>>
    /\ method = "none"
    /\ text = <<>> /\ lid = NotCalled /\ ld = NotCalled /\ results = <<>>
    /\ texts = <<>> /\ batch_lid = <<>> /\ batch_ld = <<>> /\ batch_results = <<>>
    /\ predictions = <<>> /\ ground_truth = <<>> /\ confusion_matrix = NoMatrix
    /\ image = NoImage /\ bbox = NoBbox /\ element_type = "none"
    /\ model_out = NotCalled /\ pre_out = "none"
    /\ reader_out = NotCalled /\ trocr_out = NotCalled
    /\ generated_text = <<>> /\ reference_text = <<>>
    /\ bert_out = NotCalled /\ bleu_out = NotCalled /\ sim_out = NotCalled
    /\ image_path = NoFile /\ stage = 0 /\ result = NoResult /\ served = NoServed
    /\ previous = NoPrevious
    /\ images = <<>> /\ bboxes = NoBboxes /\ batch_out = <<>> /\ ocr_results = <<>>
    /\ lines = <<>>

\* LanguageDetector.__init__: the tables are constants of the object; the
\* other two components are not constructed.
Init ==
    /\ NoCall
    /\ chart_model = Absent /\ table_pipeline = Absent /\ bertscorer = Absent
    /\ reader = Absent /\ trocr = Absent

\* A variant whose confidence totals live on the detector: the decision is
\* reported with the confidence of the decision kept from before added in.
DetectLanguageCallSharedTotals ==
    /\ pc = "idle"
    /\ \E t \in Texts, m \in DetectionMethods :
         \E a \in LangidFor(t, m), b \in LangdetectFor(t, m) :
            /\ op' = "detect_language"
            /\ text' = t /\ method' = m /\ lid' = a /\ ld' = b
            /\ \E rs \in {IF ~IsBlank(t) /\ m = "ensemble"
                           THEN EnsembleResults(t, a, b) ELSE <<>>} :
                 /\ results' = rs
                 /\ calls' = StrategyCalls(t, m, a, b, rs)
                 /\ ret' = IF ~IsBlank(t) /\ m = "ensemble"
                           THEN Returned([EnsembleReduce(t, rs) EXCEPT
                                    !.confidence = @ + (IF previous.ret.kind = "return"
                                                        THEN previous.ret.val.confidence
                                                        ELSE 0)])
                           ELSE DetectLanguage(t, m, a, b)
    /\ pc' = "done"
    /\ IdleBatch /\ IdleMetrics
    /\ UNCHANGED <<objectVars, visionVars, evalVars, pipeVars>>
    /\ UNCHANGED <<previous, ocrBatchVars, lines>>

\* detect_language(text, method)
DetectLanguageCall ==
    /\ pc = "idle"
    /\ \E t \in Texts, m \in DetectionMethods :
         \E a \in LangidFor(t, m), b \in LangdetectFor(t, m) :
            /\ op' = "detect_language"
            /\ text' = t /\ method' = m /\ lid' = a /\ ld' = b
            /\ \E rs \in {IF ~IsBlank(t) /\ m = "ensemble"
                           THEN EnsembleResults(t, a, b) ELSE <<>>} :
                 /\ results' = rs
                 /\ calls' = StrategyCalls(t, m, a, b, rs)
                 /\ ret' = IF ~IsBlank(t) /\ m = "ensemble"
                           THEN Returned(EnsembleReduce(t, rs))
                           ELSE DetectLanguage(t, m, a, b)
    /\ pc' = "done"
    /\ IdleBatch /\ IdleMetrics
    /\ UNCHANGED <<objectVars, visionVars, evalVars, pipeVars>>
    /\ UNCHANGED <<previous, ocrBatchVars, lines>>

\* batch_detect(texts, method): entry
BatchDetectCall ==
    /\ pc = "idle"
    /\ \E ts \in SeqsUpTo(BatchTexts, MaxBatch), m \in DetectionMethods :
         /\ texts' = ts /\ method' = m
    /\ op' = "batch_detect" /\ pc' = "batch_loop" /\ ret' = NoRet /\ calls' = <<>>
    /\ batch_lid' = <<>> /\ batch_ld' = <<>> /\ batch_results' = <<>>
    /\ IdleDetect /\ IdleMetrics
    /\ UNCHANGED <<objectVars, visionVars, evalVars, pipeVars>>
    /\ UNCHANGED <<previous, ocrBatchVars, lines>>

\* A variant whose except branch answers the English default of
\* _find_closest_language instead of the unknown result.
BatchItemResultEnglishDefault(outcome) ==
    IF outcome.kind = "return" THEN outcome.val
    ELSE LanguageDetectionResult("English", Pct(50), <<>>, "en", FALSE)

\* batch_detect: the except branch turns a raised error into the unknown result
BatchItemResult(outcome) ==
    IF outcome.kind = "return" THEN outcome.val ELSE UnknownResult

\* batch_detect: one iteration of "for text in texts"
BatchDetectStep ==
    /\ pc = "batch_loop"
    /\ Len(batch_results) < Len(texts)
    /\ LET t == texts[Len(batch_results) + 1]
       IN  \E a \in LangidFor(t, method) \cap (BatchLangid \cup {NotCalled}),
              b \in LangdetectFor(t, method) \cap (BatchLangdetect \cup {NotCalled}) :
              /\ batch_lid' = Append(batch_lid, a)
              /\ batch_ld' = Append(batch_ld, b)
              /\ batch_results' = Append(batch_results,
                                         BatchItemResult(DetectLanguage(t, method, a, b)))
    /\ UNCHANGED <<op, pc, ret, calls, method, texts, detectVars, metricVars,
                   objectVars, visionVars, evalVars, pipeVars>>
    /\ UNCHANGED <<previous, ocrBatchVars, lines>>

\* batch_detect: "return results"
BatchDetectReturn ==
    /\ pc = "batch_loop"
    /\ Len(batch_results) = Len(texts)
    /\ ret' = Returned(batch_results)
    /\ pc' = "done"
    /\ UNCHANGED <<op, calls, langVars, objectVars, visionVars, evalVars, pipeVars>>
    /\ UNCHANGED <<previous, ocrBatchVars, lines>>

\* calculate_metrics(predictions, ground_truth)
CalculateMetricsCall ==
    /\ pc = "idle"
    /\ \E ps \in SeqsUpTo(MetricCodes, MaxPreds), gs \in SeqsUpTo(MetricCodes, MaxPreds) :
         /\ predictions' = ps /\ ground_truth' = gs
         /\ \E r \in {CalculateMetrics(ps, gs)} :
              /\ ret' = r
              /\ confusion_matrix' = IF r.kind = "return"
                                     THEN r.val.confusion_matrix ELSE NoMatrix
    /\ op' = "calculate_metrics" /\ pc' = "done" /\ method' = "none" /\ calls' = <<>>
    /\ IdleDetect /\ IdleBatch
    /\ UNCHANGED <<objectVars, visionVars, evalVars, pipeVars>>
    /\ UNCHANGED <<previous, ocrBatchVars, lines>>

\* A call has returned or raised: its arguments and locals are gone and the
\* object, which no call modifies, is ready for the next call.  A caller that
\* kept an earlier decision has now seen a later call end.
CallEnds ==
    /\ pc = "done"
    /\ op' = "init" /\ pc' = "idle" /\ ret' = NoRet /\ calls' = <<>>
    /\ method' = "none"
    /\ IdleDetect /\ IdleBatch /\ IdleMetrics /\ IdleVision /\ IdleEval /\ IdlePipe
    /\ UNCHANGED <<objectVars, served>>
    /\ IdleOcrBatch /\ lines' = <<>>
    /\ previous' = IF previous = NoPrevious THEN previous
                   ELSE [previous EXCEPT !.later = TRUE]

\* The detect_language calls whose decision a caller keeps for comparison.
ObservedCalls ==
    [text : {<<1605>>}, method : {"ensemble"}, lid : {[kind |-> "raise"]},
     ld : {o \in LangdetectOutcomes : o.langs = <<<<"ar", ONE>>>> \/ o.kind = "raise"}]

\* A detect_language call has returned and its caller keeps the decision;
\* the detector is left as any other call leaves it.
DetectLanguageEnds ==
    /\ pc = "done" /\ op = "detect_language"
    /\ [text |-> text, method |-> method, lid |-> lid, ld |-> ld] \in ObservedCalls
    /\ previous' = [text |-> text, method |-> method, lid |-> lid, ld |-> ld, ret |-> ret,
                    later |-> FALSE]
    /\ op' = "init" /\ pc' = "idle" /\ ret' = NoRet /\ calls' = <<>>
    /\ method' = "none"
    /\ IdleDetect /\ IdleBatch /\ IdleMetrics /\ IdleVision /\ IdleEval /\ IdlePipe
    /\ IdleOcrBatch /\ lines' = <<>>
    /\ UNCHANGED <<objectVars, served>>

Next ==
    \/ DetectLanguageCall
    \/ BatchDetectCall
    \/ BatchDetectStep
    \/ BatchDetectReturn
    \/ CalculateMetricsCall
    \/ CallEnds

Spec == Init /\ [][Next]_vars

\* The detector serving a sequence of requests, some of whose decisions are
\* kept by their callers.
NextRequests ==
    \/ DetectLanguageCall
    \/ DetectLanguageEnds
    \/ BatchDetectCall
    \/ BatchDetectStep
    \/ BatchDetectReturn
    \/ CalculateMetricsCall
    \/ CallEnds

SpecRequests == Init /\ [][NextRequests]_vars

\* ------------------------------------------ VisualToTextGenerator as a system
MaxDim == 4          \* largest image side and bounding-box extent, in pixels

Images == {[h |-> a, w |-> b, ch |-> 3] : a, b \in 2..MaxDim}
Bboxes == {<<x, 0, w, h>> : x \in 0..1, w \in 0..MaxDim, h \in 0..MaxDim}
ElementTypes == {"chart", "map", "table", "figure"}

\* VisualToTextGenerator.__init__: each model either loaded or was set to None.
InitNLG ==
    /\ NoCall
    /\ chart_model \in BOOLEAN /\ table_pipeline \in BOOLEAN /\ bertscorer \in BOOLEAN
    /\ reader = Absent /\ trocr = Absent

\* generate_description(image, bbox, element_type)
GenerateDescriptionCall ==
    /\ pc = "idle"
    /\ \E img \in Images, bb \in Bboxes, et \in ElementTypes :
         \E out \in IF \/ et \in {"chart", "map"} /\ chart_model
                       \/ et = "table" /\ table_pipeline
                    THEN ModelOutcomesOn(Crop(img, bb)) ELSE {NotCalled} :
            /\ image' = img /\ bbox' = bb /\ element_type' = et /\ model_out' = out
            /\ ret' = GenerateDescription(img, bb, et, chart_model, table_pipeline, out)
            /\ calls' = ProviderCalls(et, chart_model, table_pipeline, out)
    /\ op' = "generate_description" /\ pc' = "done"
    /\ UNCHANGED <<langVars, objectVars, pre_out, reader_out, trocr_out, evalVars, pipeVars>>
    /\ UNCHANGED <<previous, ocrBatchVars, lines>>

\* The descriptions evaluated: "", "T" and "T 1".
EvalTexts == {<<>>, <<84>>, <<84, 32, 49>>}

\* evaluate_generation(generated_text, reference_text, element_type)
EvaluateGenerationCall ==
    /\ pc = "idle"
    /\ \E g \in EvalTexts, r \in EvalTexts, et \in ElementTypes :
         \E be \in IF bertscorer THEN ScorerOutcomes ELSE {NotCalled} :
           \E bl \in IF bertscorer /\ be.kind = "raise" THEN {NotCalled} ELSE ScorerOutcomes :
             \E sm \in IF bl.kind = "raise" THEN ScorerOutcomes ELSE {NotCalled} :
                /\ generated_text' = g /\ reference_text' = r /\ element_type' = et
                /\ bert_out' = be /\ bleu_out' = bl /\ sim_out' = sm
                /\ ret' = EvaluateGeneration(g, r, et, bertscorer, be, bl, sm)
                /\ calls' = ScorerCalls(bertscorer, be, bl)
    /\ op' = "evaluate_generation" /\ pc' = "done"
    /\ UNCHANGED <<langVars, objectVars, image, bbox, model_out, pre_out, reader_out,
                   trocr_out, pipeVars>>
    /\ UNCHANGED <<previous, ocrBatchVars, lines>>

NextNLG ==
    \/ GenerateDescriptionCall
    \/ EvaluateGenerationCall
    \/ CallEnds

SpecNLG == InitNLG /\ [][NextNLG]_vars

\* ------------------------------------------------ MultilingualOCR as a system
OcrImages == {[h |-> 2, w |-> 3, ch |-> c] : c \in {1, 3}}
OcrBboxes == {NoBbox, <<1, 0, 2, 2>>, <<0, 0, 0, 2>>, <<5, 0, 1, 1>>}

\* Region texts: "T", " T!", " ", "!", Devanagari RA, Arabic MEEM, MEEM
\* followed by a letter of the Arabic Supplement block, and YEH BARREE, a
\* letter of Urdu only.
OcrTexts ==
    {<<84>>, <<32, 84, 33>>, <<32>>, <<33>>, <<2352>>, <<1605>>, <<1605, 1872>>, <<1746>>}
Polygons == {<<<<1, 0>>, <<2, 0>>, <<2, 1>>, <<1, 1>>>>,
             <<<<1, 1>>, <<2, 2>>, <<1, 3>>, <<0, 2>>>>}
RawRegions == {<<poly, t, Pct(90)>> : poly \in Polygons, t \in OcrTexts}

ReaderOutcomes ==
    {[kind |-> "raise"]}
      \cup {[kind |-> "ok", results |-> r] : r \in SeqsUpTo(RawRegions, MaxRegions)}
TrocrOutcomes ==
    {[kind |-> "raise"]} \cup {[kind |-> "ok", text |-> t] : t \in {<<84>>, <<32, 33>>}}

\* MultilingualOCR.__init__: each reader either loaded or was set to None.
InitOCR ==
    /\ NoCall
    /\ chart_model = Absent /\ table_pipeline = Absent /\ bertscorer = Absent
    /\ reader \in BOOLEAN /\ trocr \in BOOLEAN

\* extract_text(image, bbox)
ExtractTextCall ==
    /\ pc = "idle"
    /\ \E img \in OcrImages, bb \in OcrBboxes :
         \E pre \in PreprocessOutcomes(IF bb # NoBbox THEN Crop(img, bb) ELSE img) :
           \E ro \in IF pre = "ok" /\ reader THEN ReaderOutcomes ELSE {NotCalled} :
             \E tr \in IF pre = "ok" /\ trocr /\ (~reader \/ ro.kind = "raise")
                       THEN TrocrOutcomes ELSE {NotCalled} :
                /\ image' = img /\ bbox' = bb
                /\ pre_out' = pre /\ reader_out' = ro /\ trocr_out' = tr
                /\ ret' = ExtractText(img, bb, reader, trocr, pre, ro, tr)
                /\ calls' = ReaderCalls(reader, trocr, pre, ro)
    /\ op' = "extract_text" /\ pc' = "done"
    /\ UNCHANGED <<langVars, objectVars, element_type, model_out, evalVars, pipeVars>>
    /\ UNCHANGED <<previous, ocrBatchVars, lines>>

\* batch_extract's arguments: up to MaxBatch copies of one image, and
\* bboxes, which is None or a list of boxes (None, a box inside the image,
\* a box of zero width) that may be shorter or longer than images.
BatchImages == SeqsUpTo({[h |-> 2, w |-> 3, ch |-> 3]}, MaxBatch)
BatchBboxes ==
    {NoBboxes} \cup {[given |-> TRUE, list |-> l] :
                        l \in SeqsUpTo({NoBbox, <<1, 0, 2, 2>>, <<0, 0, 0, 2>>}, MaxBatch)}
\* What the EasyOCR reader does for one image of a batch.
BatchReaderOutcomes ==
    {[kind |-> "raise"],
     [kind |-> "ok",
      results |-> <<<<(<<<<1, 0>>, <<2, 0>>, <<2, 1>>, <<1, 1>>>>), <<84>>, Pct(90)>>>>]}

\* batch_extract: the empty result of the except branch
EmptyOCRResult == OCRResult(<<>>, <<>>, {}, "0.0")

\* batch_extract: "bboxes[i] if bboxes else None", i counting from 1 here;
\* None and the empty list are falsy, and an index past the end raises.
BatchBbox(i) ==
    IF ~bboxes.given \/ bboxes.list = <<>> THEN Returned(NoBbox)
    ELSE IF i <= Len(bboxes.list) THEN Returned(bboxes.list[i])
    ELSE Raised("IndexError")

\* batch_extract(images, bboxes): entry
BatchExtractCall ==
    /\ pc = "idle"
    /\ \E imgs \in BatchImages, bbs \in BatchBboxes : images' = imgs /\ bboxes' = bbs
    /\ op' = "batch_extract" /\ pc' = "extract_loop" /\ ret' = NoRet /\ calls' = <<>>
    /\ batch_out' = <<>> /\ ocr_results' = <<>>
    /\ UNCHANGED <<langVars, objectVars, visionVars, evalVars, pipeVars, previous, lines>>

\* batch_extract: one iteration of "for i, image in enumerate(images)".  The
\* bbox is picked before the try; extract_text runs inside it.
BatchExtractStep ==
    /\ pc = "extract_loop"
    /\ Len(ocr_results) < Len(images)
    /\ LET i == Len(ocr_results) + 1
           picked == BatchBbox(i)
       IN  IF picked.kind = "raise"
           THEN /\ ret' = picked /\ pc' = "done"
                /\ UNCHANGED <<batch_out, ocr_results>>
           ELSE /\ \E pre \in PreprocessOutcomes(IF picked.val # NoBbox
                                                  THEN Crop(images[i], picked.val)
                                                  ELSE images[i]) :
                     \E ro \in IF pre = "ok" /\ reader
                               THEN BatchReaderOutcomes ELSE {NotCalled} :
                       \E tr \in IF pre = "ok" /\ trocr /\ (~reader \/ ro.kind = "raise")
                                 THEN {o \in TrocrOutcomes :
                                          o.kind = "raise" \/ o.text = <<84>>}
                                 ELSE {NotCalled} :
                          /\ batch_out' = Append(batch_out,
                                  [pre |-> pre, reader_out |-> ro, trocr_out |-> tr])
                          /\ ocr_results' = Append(ocr_results,
                                  LET extracted == ExtractText(images[i], picked.val,
                                                       reader, trocr, pre, ro, tr)
                                  IN  IF extracted.kind = "return" THEN extracted.val
                                      ELSE EmptyOCRResult)
                /\ UNCHANGED <<pc, ret>>
    /\ UNCHANGED <<op, calls, images, bboxes, langVars, objectVars, visionVars, evalVars,
                   pipeVars, previous, lines>>

\* batch_extract: "return results"
BatchExtractReturn ==
    /\ pc = "extract_loop"
    /\ Len(ocr_results) = Len(images)
    /\ ret' = Returned(ocr_results)
    /\ pc' = "done"
    /\ UNCHANGED <<op, calls, langVars, objectVars, visionVars, evalVars, pipeVars,
                   previous, ocrBatchVars, lines>>

NextOCR ==
    \/ ExtractTextCall
    \/ BatchExtractCall
    \/ BatchExtractStep
    \/ BatchExtractReturn
    \/ CallEnds

SpecOCR == InitOCR /\ [][NextOCR]_vars

\* ------------------------------------------------- PS05Pipeline as a system
ImageFiles ==
    {ImageFile("missing.png", FALSE, <<>>), ImageFile("unreadable.png", FALSE, <<"Text">>)}
      \cup {ImageFile("page.png", TRUE, p) : p \in SeqsUpTo(ElementClasses, MaxElements)}
StageNumbers == {0, 1, 2, 3, 99}

\* PS05Pipeline.__init__: the other components are not modelled here.
InitPipeline ==
    /\ NoCall
    /\ chart_model = Absent /\ table_pipeline = Absent /\ bertscorer = Absent
    /\ reader = Absent /\ trocr = Absent

\* process_image(image_path, stage): the image is read
ProcessImageCall ==
    /\ pc = "idle"
    /\ \E f \in ImageFiles, k \in StageNumbers :
         /\ image_path' = f /\ stage' = k
         /\ LET loaded == LoadImage(f)
            IN  IF loaded.kind = "return" /\ "error" \notin DOMAIN loaded.val
                THEN result' = loaded.val /\ ret' = NoRet /\ pc' = "stages"
                ELSE result' = NoResult /\ ret' = loaded /\ pc' = "done"
    /\ op' = "process_image" /\ calls' = <<>>
    /\ UNCHANGED <<langVars, objectVars, visionVars, evalVars, served>>
    /\ UNCHANGED <<previous, ocrBatchVars, lines>>

\* process_image: the next stage runs on the result so far
ProcessImageStage ==
    /\ pc = "stages"
    /\ Len(calls) < StagesToRun(stage)
    /\ result' = RunStage(Len(calls) + 1, image_path, result)
    /\ calls' = Append(calls, Len(calls) + 1)
    /\ UNCHANGED <<op, pc, ret, langVars, objectVars, visionVars, evalVars,
                   image_path, stage, served>>
    /\ UNCHANGED <<previous, ocrBatchVars, lines>>

\* process_image: "return result"
ProcessImageReturn ==
    /\ pc = "stages"
    /\ Len(calls) = StagesToRun(stage)
    /\ ret' = Returned(result)
    /\ pc' = "done"
    /\ UNCHANGED <<op, calls, langVars, objectVars, visionVars, evalVars, pipeVars>>
    /\ UNCHANGED <<previous, ocrBatchVars, lines>>

\* The caller takes the result; the next request starts from a pipeline
\* that holds nothing of this one.
ProcessImageEnds ==
    /\ pc = "done" /\ op = "process_image"
    /\ served' = IF ret.kind = "return" /\ "error" \notin DOMAIN ret.val
                 THEN [file |-> image_path, stage |-> stage, value |-> ret.val]
                 ELSE served
    /\ op' = "init" /\ pc' = "idle" /\ ret' = NoRet /\ calls' = <<>>
    /\ method' = "none"
    /\ IdleDetect /\ IdleBatch /\ IdleMetrics /\ IdleVision /\ IdleEval /\ IdlePipe
    /\ UNCHANGED objectVars
    /\ IdleOcrBatch /\ lines' = <<>>
    /\ UNCHANGED previous

NextPipeline ==
    \/ ProcessImageCall
    \/ ProcessImageStage
    \/ ProcessImageReturn
    \/ ProcessImageEnds

SpecPipeline == InitPipeline /\ [][NextPipeline]_vars

\* ------------------------------------------------ detect_lines as a system
\* detect_lines' argument: an array of any height up to MaxHeight, empty or
\* 600 pixels wide, or something without a shape (None).
LineInputs == {[h |-> a, w |-> b, ch |-> 3] : a \in 0..MaxHeight, b \in {0, 600}} \cup {NoImage}

\* detect_lines(image): image.shape is read inside the try; when that
\* raises, the except branch returns the empty list.
DetectLinesCall ==
    /\ pc = "idle"
    /\ \E img \in LineInputs :
         /\ image' = img
         /\ IF img = NoImage
            THEN ret' = Returned(<<>>) /\ pc' = "done"
            ELSE ret' = NoRet /\ pc' = "lines_loop"
    /\ op' = "detect_lines" /\ calls' = <<>> /\ lines' = <<>>
    /\ UNCHANGED <<langVars, objectVars, bbox, element_type, model_out, pre_out, reader_out,
                   trocr_out, evalVars, pipeVars, previous, ocrBatchVars>>

\* detect_lines: one iteration of "for y in range(0, h, step)"
DetectLinesStep ==
    /\ pc = "lines_loop"
    /\ LET step == LineStep(image.h)
           y == Len(lines) * step
       IN  /\ y < image.h
           /\ lines' = Append(lines, TextLine(y, image.w, LineHeight(step, image.h, y)))
    /\ UNCHANGED <<op, pc, ret, calls, langVars, objectVars, visionVars, evalVars, pipeVars,
                   previous, ocrBatchVars>>

\* detect_lines: the range is exhausted, "return out"
DetectLinesReturn ==
    /\ pc = "lines_loop"
    /\ Len(lines) * LineStep(image.h) >= image.h
    /\ ret' = Returned(lines)
    /\ pc' = "done"
    /\ UNCHANGED <<op, calls, langVars, objectVars, visionVars, evalVars, pipeVars,
                   previous, ocrBatchVars, lines>>

NextLines ==
    \/ DetectLinesCall
    \/ DetectLinesStep
    \/ DetectLinesReturn
    \/ CallEnds

SpecLines == Init /\ [][NextLines]_vars

\* ------------------------------------- the two fallback chains side by side
\* Both components constructed: MultilingualOCR.__init__ and
\* VisualToTextGenerator.__init__ (its scorer is not used by the chains).
InitChains ==
    /\ NoCall
    /\ chart_model \in BOOLEAN /\ table_pipeline \in BOOLEAN /\ bertscorer = FALSE
    /\ reader \in BOOLEAN /\ trocr \in BOOLEAN

NextChains ==
    \/ ExtractTextCall
    \/ GenerateDescriptionCall
    \/ CallEnds

SpecChains == InitChains /\ [][NextChains]_vars

\* ================================================================= claims
NlgDone == op = "generate_description" /\ pc = "done"
OcrDone == op = "extract_text" /\ pc = "done"
DetectDone == op = "detect_language" /\ pc = "done"
EnsembleDone == DetectDone /\ method = "ensemble"
BatchDone == op = "batch_detect" /\ pc = "done"
MetricsDone == op = "calculate_metrics" /\ pc = "done"

IsTemplateResult(outcome) ==
    /\ outcome.kind = "return"
    /\ outcome.val.metadata.model = "template"
    /\ outcome.val.confidence = Pct(50)

\* C1 as stated: whatever the image, bounding box and element type, when the
\* model is unavailable or fails generate_description does not raise and
\* returns the template result (model 'template', confidence 0.5).
C1_AnyInputFallsBackToTemplate ==
    (NlgDone /\ model_out.kind # "ok") => IsTemplateResult(ret)

\* C1 amended: for the element types generate_description supports (chart,
\* map, table), when the model is unavailable or fails the call does not
\* raise and returns the template result (model 'template', confidence 0.5).
C1_SupportedTypeFallsBackToTemplate ==
    (NlgDone /\ element_type \in {"chart", "map", "table"} /\ model_out.kind # "ok")
        => IsTemplateResult(ret)

C1_Witness ==
    /\ NlgDone /\ element_type = "table" /\ table_pipeline = TRUE
    /\ model_out.kind = "raise" /\ ~IsEmptyImage(Crop(image, bbox))
    /\ IsTemplateResult(ret)

\* C2: extract_text never raises, and when neither reader is available or
\* succeeds the result has no text regions, empty overall_text and no
\* detected languages.
C2_ExtractTextNeverRaises ==
    OcrDone =>
        /\ ret.kind = "return"
        /\ ((reader_out.kind # "ok" /\ trocr_out.kind # "ok")
              => /\ ret.val.text_regions = <<>>
                 /\ ret.val.overall_text = <<>>
                 /\ ret.val.detected_languages = {})

\* C3: detect_language on an empty or whitespace-only text returns the
\* Unknown decision (confidence 0, no alternatives, not reliable) for every
\* method, and runs no strategy.
C3_BlankTextIsUnknown ==
    (DetectDone /\ \A i \in 1..Len(text) : text[i] = 32)
        => /\ ret = Returned(LanguageDetectionResult("Unknown", 0, <<>>, "unknown", FALSE))
           /\ calls = <<>>

C3_Witness ==
    /\ DetectDone /\ text = <<32, 32>> /\ method = "bogus"
    /\ ret.kind = "return" /\ ret.val.language_code = "unknown"

IsSortedDescending(alts) ==
    \A i \in 1..(Len(alts) - 1) : alts[i][2] >= alts[i + 1][2]

\* C4: every ensemble decision has a confidence in [0,1] and at most three
\* alternatives, sorted by descending confidence.
C4_EnsembleDecisionWellFormed ==
    EnsembleDone =>
        /\ ret.kind = "return"
        /\ ret.val.confidence >= 0 /\ ret.val.confidence <= ONE
        /\ Len(ret.val.alternative_languages) <= 3
        /\ IsSortedDescending(ret.val.alternative_languages)

\* C5 as stated: in every ensemble decision the winner's confidence is at
\* least the confidence of every alternative.
C5_WinnerOutscoresAlternatives ==
    EnsembleDone =>
        \A i \in 1..Len(ret.val.alternative_languages) :
            ret.val.confidence >= ret.val.alternative_languages[i][2]

VotesFor(code) == Cardinality({i \in 1..Len(results) : results[i].language_code = code})

\* C5 amended: in every ensemble decision reached by voting, the winner has
\* at least as many reliable votes as every other code voted for (its mean
\* confidence may be lower than an alternative's); in a decision reached by
\* the pattern fallback the winner's confidence is at least the confidence
\* of every alternative.
C5_WinnerHasMostVotes ==
    EnsembleDone =>
        /\ \A i \in 1..Len(results) :
              VotesFor(results[i].language_code) <= VotesFor(ret.val.language_code)
        /\ results = <<>> =>
              \A i \in 1..Len(ret.val.alternative_languages) :
                  ret.val.confidence >= ret.val.alternative_languages[i][2]

C5_Witness ==
    /\ EnsembleDone /\ VotesFor(ret.val.language_code) = 2 /\ Len(results) = 4
    /\ \E i \in 1..Len(ret.val.alternative_languages) :
          ret.val.confidence < ret.val.alternative_languages[i][2]

\* C6: every decision detect_language returns carries one of the six
\* supported codes or the sentinel 'unknown', whatever the method, the text
\* and the classifiers' answers.
C6_LanguageCodeInClosedSet ==
    (DetectDone /\ ret.kind = "return")
        => ret.val.language_code \in {"en", "hi", "ur", "ar", "ne", "fa", "unknown"}

C6_Witness ==
    /\ DetectDone /\ method = "langid" /\ lid.kind = "ok" /\ lid.lang = "fr"
    /\ ret.kind = "return" /\ ret.val.language_code = "en"

\* C7: an ensemble decision is reliable exactly when its confidence is
\* strictly above 0.6, on the empty-text and pattern-fallback paths too.
C7_ReliableIffAboveThreshold ==
    EnsembleDone => (ret.val.is_reliable <=> ret.val.confidence > (6 * ONE) \div 10)

C7_Witness ==
    /\ EnsembleDone /\ results = <<>> /\ text = <<84, 49, 49, 49>>
    /\ ret.val.confidence = ONE \div 4 /\ ~ret.val.is_reliable

NoReliableVote ==
    \A m \in {"langid", "langdetect", "pattern", "feature"} :
        ~DetectLanguage(text, m, lid, ld).val.is_reliable

\* C8: when no strategy gives a reliable vote for a non-empty text, ensemble
\* detection raises nothing and returns the pattern strategy's result, which
\* is not reliable.
C8_TotalAbstentionFallsBackToPatterns ==
    (EnsembleDone /\ (\E i \in 1..Len(text) : text[i] # 32) /\ NoReliableVote)
        => /\ ret.kind = "return"
           /\ ret.val = DetectWithPatterns(text)
           /\ ~ret.val.is_reliable

C8_Witness ==
    /\ EnsembleDone /\ text = <<84, 49, 49, 49>> /\ lid.kind = "raise" /\ ld.kind = "raise"
    /\ NoReliableVote
    /\ ret.kind = "return" /\ ret.val.language_code = "en" /\ ret.val.confidence = ONE \div 4

\* C9: batch_detect returns one result per text, in input order, each the
\* decision detect_language gives for that text and the classifiers' answers
\* for it, or the Unknown decision where detect_language raises.
C9_BatchIsPerItemDetection ==
    BatchDone =>
        /\ ret.kind = "return"
        /\ Len(ret.val) = Len(texts)
        /\ \A i \in 1..Len(texts) :
              LET alone == DetectLanguage(texts[i], method, batch_lid[i], batch_ld[i])
              IN  ret.val[i] = IF alone.kind = "return" THEN alone.val
                               ELSE LanguageDetectionResult("Unknown", 0, <<>>, "unknown", FALSE)

C9_Witness ==
    /\ BatchDone /\ method = "bogus" /\ texts = <<<<84>>, <<1605, 1593>>>>
    /\ Len(ret.val) = 2 /\ ret.val[1].language_code = "unknown"

\* C10: calculate_metrics with sequences of different lengths raises
\* ValueError before the confusion matrix or any score is computed.
C10_LengthMismatchRaises ==
    (MetricsDone /\ Len(predictions) # Len(ground_truth))
        => /\ ret = Raised("ValueError")
           /\ confusion_matrix = NoMatrix

C10_Witness ==
    /\ MetricsDone /\ Len(predictions) = 2 /\ Len(ground_truth) = 1
    /\ ret.kind = "raise"

\* C11: comparing any sequence of language codes with itself,
\* calculate_metrics reports accuracy 1.0.
C11_SelfComparisonIsPerfect ==
    (MetricsDone /\ predictions = ground_truth)
        => ret.kind = "return" /\ ret.val.accuracy = ONE

PredictedAs(l) ==
    {i \in 1..Len(predictions) : predictions[i] = l /\ ground_truth[i] \in SupportedCodes}
ActuallyIs(l) ==
    {i \in 1..Len(predictions) : ground_truth[i] = l /\ predictions[i] \in SupportedCodes}
CorrectFor(l) ==
    {i \in 1..Len(predictions) : predictions[i] = l /\ ground_truth[i] = l}
MacroTerm(l, Counted(_)) ==
    IF Counted(l) = {} THEN 0
    ELSE (Cardinality(CorrectFor(l)) * ONE) \div Cardinality(Counted(l))

\* C12: precision and recall are macro averages over the six supported
\* languages with equal weight: a language never predicted (never actual)
\* adds 0 to the precision (recall) sum and still counts in the divisor 6;
\* when no supported language was predicted or present the F1 is 0.
C12_MacroAveragesOverSixLanguages ==
    (MetricsDone /\ ret.kind = "return") =>
        /\ ret.val.precision =
              SumSeq([i \in 1..6 |-> MacroTerm(LangOrder[i], PredictedAs)]) \div 6
        /\ ret.val.recall =
              SumSeq([i \in 1..6 |-> MacroTerm(LangOrder[i], ActuallyIs)]) \div 6
        /\ (\A l \in SupportedCodes : PredictedAs(l) = {} /\ ActuallyIs(l) = {})
              => ret.val.f1_score = 0

C12_Witness ==
    /\ MetricsDone /\ predictions = <<"en", "hi">> /\ ground_truth = <<"en", "en">>
    /\ ret.kind = "return"
    /\ ret.val.precision = ONE \div 6 /\ ret.val.recall = ONE \div 12

EvalDone == op = "evaluate_generation" /\ pc = "done"
IsScored(metrics) == "error" \notin DOMAIN metrics.details

\* C13: the combined score is 0.5*primary + 0.5*secondary for charts and
\* maps and 0.3*primary + 0.7*secondary for tables; primary is the n-gram
\* score and secondary the embedding score, 0 when the embedding scorer is
\* unavailable.
C13_CombinedScoreWeights ==
    (EvalDone /\ ret.kind = "return" /\ IsScored(ret.val)) =>
        LET primary == IF bleu_out.kind = "ok" THEN bleu_out.score ELSE sim_out.score
            secondary == IF bertscorer THEN bert_out.score ELSE 0
        IN  /\ ret.val.bleurt_score = primary
            /\ ret.val.bertscore_score = secondary
            /\ element_type \in {"chart", "map"}
                  => 10 * ret.val.combined_score = 5 * primary + 5 * secondary
            /\ element_type = "table"
                  => 10 * ret.val.combined_score = 3 * primary + 7 * secondary

C13_Witness ==
    /\ EvalDone /\ element_type = "table" /\ bertscorer = TRUE
    /\ bleu_out.kind = "ok" /\ bleu_out.score = Pct(40) /\ bert_out.score = ONE
    /\ ret.val.combined_score = Pct(82)

\* C14: evaluate_generation never raises; when one of its steps raises (the
\* embedding scorer, or _calculate_bleu_score once its own similarity
\* fallback has failed) it returns an EvaluationMetrics whose three scores
\* are 0 and whose details carry an error marker.
C14_EvaluationNeverRaises ==
    EvalDone =>
        /\ ret.kind = "return"
        /\ (bert_out.kind = "raise" \/ sim_out.kind = "raise")
              => /\ ret.val.bleurt_score = 0 /\ ret.val.bertscore_score = 0
                 /\ ret.val.combined_score = 0
                 /\ "error" \in DOMAIN ret.val.details

C14_Witness ==
    /\ EvalDone /\ bertscorer = TRUE /\ bert_out.kind = "raise"
    /\ ret.kind = "return" /\ ret.val.combined_score = 0
    /\ "error" \in DOMAIN ret.val.details

ProcessDone == op = "process_image" /\ pc = "done"
ProcessSucceeded == ProcessDone /\ ret.kind = "return" /\ "error" \notin DOMAIN ret.val
FieldsOfStage(k) ==
    CASE k = 1 -> {"elements"}
      [] k = 2 -> {"text_lines"}
      [] k = 3 -> {"tables", "figures", "charts", "maps"}
StageFieldsIn(value) ==
    DOMAIN value \cap (FieldsOfStage(1) \cup FieldsOfStage(2) \cup FieldsOfStage(3))

\* C15: a request for stage K in {1,2,3} returns the fields of stages 1..K
\* and none of a later stage: elements at stage 1, text_lines from stage 2,
\* tables, figures, charts and maps at stage 3.
C15_StageResultIsUnionOfStages ==
    (ProcessSucceeded /\ stage \in 1..3)
        => StageFieldsIn(ret.val) = UNION {FieldsOfStage(k) : k \in 1..stage}

C15_Witness ==
    /\ ProcessSucceeded /\ stage = 2 /\ image_path.page = <<"Text", "Table">>
    /\ Len(ret.val.text_lines) = 1 /\ "tables" \notin DOMAIN ret.val

\* C16: for the same document, every field two requests both return has the
\* same value in both: the elements of a stage-3 request are those of a
\* stage-1 request, and a later stage changes no field of an earlier one.
C16_StagesAreMonotonic ==
    (ProcessSucceeded /\ served.file = image_path)
        => \A f \in DOMAIN ret.val \cap DOMAIN served.value :
              ret.val[f] = served.value[f]

C16_Witness ==
    /\ ProcessSucceeded /\ stage = 3 /\ served.stage = 1 /\ served.file = image_path
    /\ image_path.page = <<"Table", "Text">>
    /\ ret.val.elements = served.value.elements /\ Len(ret.val.tables) = 1

C18_InputFailureIsReturned ==
    (ProcessDone /\ ~image_path.readable)
        => ret.kind = "return" /\ "error" \in DOMAIN ret.val

C18_Witness ==
    /\ ProcessDone /\ image_path.name = "missing.png" /\ stage = 3
    /\ ret.kind = "return" /\ "error" \in DOMAIN ret.val

LatinLetters == (65..90) \cup (97..122)
DevanagariBlock == 2304..2431
ArabicBlock == 1536..1791
ScriptLetters == LatinLetters \cup DevanagariBlock \cup ArabicBlock
LanguagesOfScript(block) ==
    IF block = LatinLetters THEN {"en"}
    ELSE IF block = DevanagariBlock THEN {"hi", "ne"} ELSE {"ur", "ar", "fa"}
Coverage(block) ==
    (Cardinality({i \in 1..Len(text) : text[i] \in block}) * ONE) \div Len(text)

\* C19: under the pattern strategy a text whose letters all belong to one
\* supported script gets a language of that script (Devanagari: 'hi' or
\* 'ne'), a confidence equal to the share of its characters that are in the
\* script, and is reliable whenever that share is above 0.3.
C19_PatternStrategyFollowsScript ==
    \A block \in {LatinLetters, DevanagariBlock, ArabicBlock} :
        (/\ DetectDone /\ method = "pattern"
         /\ \E i \in 1..Len(text) : text[i] \in block
         /\ \A i \in 1..Len(text) : text[i] \in ScriptLetters => text[i] \in block)
            => /\ ret.kind = "return"
               /\ ret.val.language_code \in LanguagesOfScript(block)
               /\ ret.val.confidence = Coverage(block)
               /\ Coverage(block) > (3 * ONE) \div 10 => ret.val.is_reliable

C19_Witness ==
    /\ DetectDone /\ method = "pattern" /\ text = <<2352, 32>>
    /\ ret.val.language_code = "hi" /\ ret.val.confidence = ONE \div 2
    /\ ret.val.is_reliable

Ran(provider) == \E i \in 1..Len(calls) : calls[i] = provider
ModelAvailable == IF element_type = "table" THEN table_pipeline ELSE chart_model

\* C20: the providers of a chain run in declared order and the first
\* success is returned: extract_text runs TrOCR only when EasyOCR is
\* unavailable or raised, generate_description runs the template only when
\* the model is unavailable or raised, and a provider that fails is
\* followed by the next one.
C20_ProvidersInDeclaredOrder ==
    /\ (OcrDone /\ ret.kind = "return") =>
          /\ Ran("trocr") => (~reader \/ reader_out.kind = "raise")
          /\ (reader /\ reader_out.kind = "ok")
                => /\ calls = <<"easyocr">>
                   /\ ret.val.text_regions
                        = PostProcessTextRegions(ProcessEasyocrResults(reader_out.results))
          /\ (reader /\ reader_out.kind = "raise" /\ trocr)
                => /\ calls = <<"easyocr", "trocr">>
                   /\ (trocr_out.kind = "ok" /\ trocr_out.text = <<84>>)
                         => /\ Len(ret.val.text_regions) = 1
                            /\ ret.val.text_regions[1].text = <<84>>
    /\ (NlgDone /\ ret.kind = "return") =>
          /\ Ran("template") => (~ModelAvailable \/ model_out.kind = "raise")
          /\ (ModelAvailable /\ model_out.kind = "ok")
                => calls = <<"model">> /\ ret.val.metadata.model # "template"
          /\ (ModelAvailable /\ model_out.kind = "raise")
                => calls = <<"model", "template">> /\ ret.val.metadata.model = "template"

C20_Witness ==
    /\ OcrDone /\ reader = TRUE /\ trocr = TRUE
    /\ reader_out.kind = "raise" /\ trocr_out.kind = "ok" /\ trocr_out.text = <<84>>
    /\ calls = <<"easyocr", "trocr">> /\ Len(ret.val.text_regions) = 1

\* What each of the four strategies answered in the call, in method order.
StrategyVotes == [i \in 1..Len(Methods) |-> DetectLanguage(text, Methods[i], lid, ld).val]
NonBlankText == \E i \in 1..Len(text) : text[i] # 32
TotalFor(code) ==
    SumSeq([i \in 1..Len(results) |->
              IF results[i].language_code = code THEN results[i].confidence ELSE 0])

\* C21: the code the ensemble chooses has a count of votes that no other
\* code exceeds, whatever the codes' total or mean confidences, and every
\* vote counted is a reliable one.
C21_PluralityOfReliableVotes ==
    (EnsembleDone /\ results # <<>>) =>
        /\ \A i \in 1..Len(results) : results[i].is_reliable
        /\ \A code \in {results[i].language_code : i \in 1..Len(results)} :
              VotesFor(code) <= VotesFor(ret.val.language_code)

C21_Witness ==
    /\ EnsembleDone /\ text = <<84, 111, 32, 32>>
    /\ ret.val.language_code = "en" /\ VotesFor("en") = 2 /\ VotesFor("ur") = 1
    /\ TotalFor("ur") > TotalFor("en")

VotedCodes == {results[i].language_code : i \in 1..Len(results)}
TiedForMostVotes ==
    {code \in VotedCodes : \A other \in VotedCodes : VotesFor(other) <= VotesFor(code)}

\* C22: when two or more codes are tied for the most votes, the ensemble
\* chooses among them the code whose voters' confidences have the highest
\* total.
C22_TieGoesToHighestTotalConfidence ==
    (EnsembleDone /\ Cardinality(TiedForMostVotes) >= 2)
        => /\ ret.val.language_code \in TiedForMostVotes
           /\ \A code \in TiedForMostVotes : TotalFor(code) <= TotalFor(ret.val.language_code)

\* The codes left after the first two rules: most votes, then highest total.
TiedOnVotesAndTotal ==
    {code \in TiedForMostVotes :
        \A other \in TiedForMostVotes : TotalFor(other) <= TotalFor(code)}
\* The position in the canonical order of the first strategy that voted for
\* the code: `results` keeps the votes in that order.
FirstVoter(code) ==
    CHOOSE i \in 1..Len(results) :
        /\ results[i].language_code = code
        /\ \A j \in 1..(i - 1) : results[j].language_code # code

\* C23: when codes are tied on vote count and on total confidence, the
\* winner is, among them, the code voted for by the strategy that comes first
\* in the order langid, langdetect, pattern, feature.
C23_LastTieGoesToFirstStrategy ==
    (EnsembleDone /\ Cardinality(TiedOnVotesAndTotal) >= 2)
        => /\ ret.val.language_code \in TiedOnVotesAndTotal
           /\ \A code \in TiedOnVotesAndTotal :
                 FirstVoter(ret.val.language_code) <= FirstVoter(code)

\* c is the mean of the confidences of the votes for the code, rounded down
\* to a multiple of 1 / ONE.
IsMeanFor(c, code) ==
    /\ VotesFor(code) * c <= TotalFor(code)
    /\ TotalFor(code) < VotesFor(code) * (c + 1)

\* C24: in a decision reached by voting, the confidence is the arithmetic
\* mean of the confidences of the votes for the winning code, and the
\* alternatives are the other codes voted for, each with the mean of the
\* confidences of its own votes.
C24_ConfidencesAreMeans ==
    (EnsembleDone /\ results # <<>>) =>
        LET alts == ret.val.alternative_languages
            others == VotedCodes \ {ret.val.language_code}
        IN  /\ IsMeanFor(ret.val.confidence, ret.val.language_code)
            /\ Len(alts) = Cardinality(others)
            /\ \A code \in others :
                  \E i \in 1..Len(alts) :
                      alts[i][1] = supported_languages[code] /\ IsMeanFor(alts[i][2], code)

C24_Witness ==
    /\ EnsembleDone /\ Len(results) = 4
    /\ VotesFor("ur") = 2 /\ VotesFor("ar") = 2 /\ ret.val.language_code = "ur"
    /\ results[1].confidence # results[3].confidence
    /\ results[2].confidence # results[4].confidence
    /\ Len(ret.val.alternative_languages) = 1
    /\ 2 * ret.val.alternative_languages[1][2] = TotalFor("ar")

\* The strategy's classifier raised during the call.
Threw(m) ==
    \/ m = "langid" /\ lid.kind = "raise"
    \/ m = "langdetect" /\ ld.kind = "raise"

\* C25: a strategy whose classifier throws abstains: the vote counts and the
\* confidence totals are those of the reliable answers of the strategies
\* that did not throw, so a failing langid or langdetect adds no vote.
C25_ThrowingStrategyAbstains ==
    (EnsembleDone /\ NonBlankText) =>
        With(StrategyVotes, LAMBDA votes :
            LET cast == {i \in 1..Len(votes) : ~Threw(Methods[i]) /\ votes[i].is_reliable}
            IN  \A code \in SupportedCodes :
                   /\ VotesFor(code)
                        = Cardinality({i \in cast : votes[i].language_code = code})
                   /\ TotalFor(code)
                        = SumSeq([i \in 1..Len(votes) |->
                                    IF i \in cast /\ votes[i].language_code = code
                                    THEN votes[i].confidence ELSE 0]))

SameCallAsPrevious ==
    /\ DetectDone /\ previous # NoPrevious
    /\ text = previous.text /\ method = previous.method
    /\ lid = previous.lid /\ ld = previous.ld

BatchExtractDone == op = "batch_extract" /\ pc = "done"

\* C27: batch_extract never raises and returns one OCRResult per image, in
\* input order; an item whose extract_text fails gets the empty OCRResult
\* (no regions, empty text, no languages, processing_time 0), for every list
\* of images and every bboxes list.
C27_BatchExtractIsolatesFailures ==
    BatchExtractDone =>
        /\ ret.kind = "return"
        /\ Len(ret.val) = Len(images)
        /\ \A i \in 1..Len(images) :
              batch_out[i].pre = "raise"
                  => ret.val[i] = [text_regions |-> <<>>, overall_text |-> <<>>,
                                   detected_languages |-> {}, processing_time |-> "0.0"]

\* C28: _detect_language_from_text answers 'fa', 'ar', 'hi' or 'en' for
\* every text the reader reports, never 'ur' and never 'ne', so no region
\* and no detected language of an EasyOCR result is Urdu or Nepali.
C28_HeuristicNeverUrduOrNepali ==
    (OcrDone /\ reader_out.kind = "ok") =>
        /\ \A i \in 1..Len(reader_out.results) :
              DetectLanguageFromText(reader_out.results[i][2]) \in {"fa", "ar", "hi", "en"}
        /\ ret.kind = "return" =>
              /\ \A i \in 1..Len(ret.val.text_regions) :
                    ret.val.text_regions[i].language \in {"fa", "ar", "hi", "en"}
              /\ ret.val.detected_languages \cap {"ur", "ne"} = {}

C28_Witness ==
    /\ OcrDone /\ reader_out.kind = "ok" /\ Len(reader_out.results) = 1
    /\ reader_out.results[1][2] = <<1746>>
    /\ ret.kind = "return" /\ ret.val.detected_languages = {"fa"}

\* C29: in every OCRResult extract_text returns, each region's text is
\* cleaned and has a character that is not whitespace, the regions are in
\* ascending order of (bbox y, bbox x), and overall_text is the regions'
\* texts joined by single spaces in that order.
C29_RegionsCleanedAndOrdered ==
    (OcrDone /\ ret.kind = "return") =>
        LET regions == ret.val.text_regions
        IN  /\ \A i \in 1..Len(regions) :
                  /\ \E k \in 1..Len(regions[i].text) : ~IsSpace(regions[i].text[k])
                  /\ regions[i].text = CleanText(regions[i].text)
            /\ \A i \in 1..(Len(regions) - 1) :
                  \/ regions[i].bbox[2] < regions[i + 1].bbox[2]
                  \/ /\ regions[i].bbox[2] = regions[i + 1].bbox[2]
                     /\ regions[i].bbox[1] <= regions[i + 1].bbox[1]
            /\ ret.val.overall_text
                 = JoinWithSpace([i \in 1..Len(regions) |-> regions[i].text])

C29_Witness ==
    /\ OcrDone /\ reader_out.kind = "ok" /\ Len(reader_out.results) = 2
    /\ reader_out.results[1][2] = <<32, 84, 33>> /\ reader_out.results[2][2] = <<1605>>
    /\ ret.kind = "return" /\ Len(ret.val.text_regions) = 2
    /\ ret.val.text_regions[1].bbox = <<1, 0, 1, 1>>
    /\ ret.val.text_regions[2].bbox = <<0, 1, 2, 2>>
    /\ ret.val.overall_text = <<1605, 32, 84>>

DetectLinesDone == op = "detect_lines" /\ pc = "done" /\ image # NoImage

\* C30: for an image of height h and width w, with step = max(32, h div 10),
\* detect_lines returns the lines at y = 0, step, 2*step, ... below h, each
\* with x = 0, width w and height min(step, h - y) > 0; each line starts
\* where the one before ends, the heights sum to h, and height 0 gives the
\* empty list.
C30_LinesTileTheHeight ==
    DetectLinesDone =>
        LET h == image.h
            step == IF h \div 10 >= 32 THEN h \div 10 ELSE 32
            n == Len(ret.val)
            top(i) == ret.val[i].bbox[2]
            height(i) == ret.val[i].bbox[4]
        IN  /\ ret.kind = "return"
            /\ \A i \in 1..n :
                  /\ top(i) = (i - 1) * step /\ top(i) < h
                  /\ ret.val[i].bbox[1] = 0 /\ ret.val[i].bbox[3] = image.w
                  /\ height(i) = (IF step < h - top(i) THEN step ELSE h - top(i))
                  /\ height(i) > 0
            /\ \A i \in 1..(n - 1) : top(i) + height(i) = top(i + 1)
            /\ n * step >= h
            /\ SumSeq([i \in 1..n |-> height(i)]) = h
            /\ h = 0 => ret.val = <<>>

C30_Witness ==
    /\ DetectLinesDone /\ image.h = 335 /\ image.w = 600
    /\ Len(ret.val) = 11 /\ ret.val[11].bbox = <<0, 330, 600, 5>>

====
